---------------------------- MODULE Spec2Model ----------------------------
(***************************************************************************)
(* wolfHSM SHE protocol engine (src/src/wh_server_she.c) as a state        *)
(* machine.  One action is one call of wh_Server_HandleSheRequest: the     *)
(* pre-dispatch gate, the handler, the normalisation of the handler's      *)
(* result and the reset of the secure-boot state.                          *)
(*                                                                         *)
(* 32-bit words are pairs <<hi16, lo16>>.  16-byte blocks are symbolic     *)
(* terms: <<"raw", n>> is a block of key bytes, the other tags are the     *)
(* results of the crypto primitives.  The byte order of the host is a      *)
(* build choice, fixed in Init.                                            *)
(***************************************************************************)
EXTENDS Integers, Sequences, FiniteSets, TLC

VARIABLES
    littleEndian,           \* byte order of the host the server was built for
    sheUid,                 \* server->sheUid
    hsmSheUidSet,
    hsmSheSbState,
    hsmSheCmacKeyFound,
    hsmSheRamKeyPlain,
    hsmSheBlSize,
    hsmSheBlSizeReceived,
    hsmSheRndInited,
    hsmShePrngState,
    WOLFHSM_SHE_PRNG_KEY,
    sheCmac,                \* the global Cmac accumulator
    nvm,                    \* the NVM object store, per SHE slot
    cache,                  \* the server key cache, per SHE slot
    call,                   \* what the last dispatcher call was and returned
    req,                    \* the request CSR, context->req
    req_data,               \* the request payload, context->req_data
    resp,                   \* the response CSR, context->resp
    resp_data,              \* the response payload, context->resp_data
    initialized,            \* context->initialized of the client and the server
    tcall,                  \* what the last transport call was and returned
    proc                    \* where each process is inside its transport call

vars == <<littleEndian, sheUid, hsmSheUidSet, hsmSheSbState, hsmSheCmacKeyFound,
          hsmSheRamKeyPlain, hsmSheBlSize, hsmSheBlSizeReceived, hsmSheRndInited,
          hsmShePrngState, WOLFHSM_SHE_PRNG_KEY, sheCmac, nvm, cache, call,
          req, req_data, resp, resp_data, initialized, tcall, proc>>

\* the variables of the transport, and those no dispatcher call changes
transport == <<req, req_data, resp, resp_data, initialized, tcall, proc>>
\* the variables of the SHE server, which no transport call changes
she == <<littleEndian, sheUid, hsmSheUidSet, hsmSheSbState, hsmSheCmacKeyFound,
         hsmSheRamKeyPlain, hsmSheBlSize, hsmSheBlSizeReceived, hsmSheRndInited,
         hsmShePrngState, WOLFHSM_SHE_PRNG_KEY, sheCmac, nvm, cache, call>>
fixed == <<littleEndian, transport>>

----------------------------------------------------------------------------
(* Bounds of the model *)

\* UIDs are 0..MaxUid: 0 is the all-zero UID, 1 is zero but for byte 0.
MaxUid == 2
\* key bytes are <<"raw", 0>> .. <<"raw", MaxKey>>
MaxKey == 1
\* LOAD_KEY counters sent by the client are 0..MaxCounter
MaxCounter == 1
\* SECURE_BOOT_INIT sizes are 0..MaxBlSize, chunk sizes 0..MaxBlSize and 2^32-1
MaxBlSize == 2
\* chunks of 2^32-1 bytes accepted by the boot CMAC in one boot attempt
MaxWrapChunks == 1
\* ENC/DEC request sizes are 0..MaxEncSz
MaxEncSz == 17
\* each buffer holds PayloadSize bytes after its CSR
PayloadSize == 2
\* requests are sent while req.notify is below MaxNotify or is 65535
MaxNotify == 1

----------------------------------------------------------------------------
(* Action codes, error codes, secure-boot states *)

WH_SHE_SET_UID            == "SET_UID"
WH_SHE_SECURE_BOOT_INIT   == "SECURE_BOOT_INIT"
WH_SHE_SECURE_BOOT_UPDATE == "SECURE_BOOT_UPDATE"
WH_SHE_SECURE_BOOT_FINISH == "SECURE_BOOT_FINISH"
WH_SHE_GET_STATUS         == "GET_STATUS"
WH_SHE_LOAD_KEY           == "LOAD_KEY"
WH_SHE_LOAD_PLAIN_KEY     == "LOAD_PLAIN_KEY"
WH_SHE_EXPORT_RAM_KEY     == "EXPORT_RAM_KEY"
WH_SHE_INIT_RND           == "INIT_RND"
WH_SHE_RND                == "RND"
WH_SHE_EXTEND_SEED        == "EXTEND_SEED"
WH_SHE_ENC_ECB            == "ENC_ECB"
WH_SHE_ENC_CBC            == "ENC_CBC"
WH_SHE_DEC_ECB            == "DEC_ECB"
WH_SHE_DEC_CBC            == "DEC_CBC"
\* an action code outside the enumeration
UnknownAction             == "UNKNOWN"

SecureBootActions ==
    {WH_SHE_SECURE_BOOT_INIT, WH_SHE_SECURE_BOOT_UPDATE, WH_SHE_SECURE_BOOT_FINISH}

Actions ==
    {WH_SHE_SET_UID, WH_SHE_SECURE_BOOT_INIT, WH_SHE_SECURE_BOOT_UPDATE,
     WH_SHE_SECURE_BOOT_FINISH, WH_SHE_GET_STATUS, WH_SHE_LOAD_KEY,
     WH_SHE_LOAD_PLAIN_KEY, WH_SHE_EXPORT_RAM_KEY, WH_SHE_INIT_RND, WH_SHE_RND,
     WH_SHE_EXTEND_SEED, WH_SHE_ENC_ECB, WH_SHE_ENC_CBC, WH_SHE_DEC_ECB,
     WH_SHE_DEC_CBC, UnknownAction}

WH_SHE_ERC_NO_ERROR          == "NO_ERROR"
WH_SHE_ERC_SEQUENCE_ERROR    == "SEQUENCE_ERROR"
WH_SHE_ERC_KEY_NOT_AVAILABLE == "KEY_NOT_AVAILABLE"
WH_SHE_ERC_KEY_INVALID       == "KEY_INVALID"
WH_SHE_ERC_KEY_EMPTY         == "KEY_EMPTY"
WH_SHE_ERC_NO_SECURE_BOOT    == "NO_SECURE_BOOT"
WH_SHE_ERC_WRITE_PROTECTED   == "WRITE_PROTECTED"
WH_SHE_ERC_KEY_UPDATE_ERROR  == "KEY_UPDATE_ERROR"
WH_SHE_ERC_RNG_SEED          == "RNG_SEED"
WH_SHE_ERC_NO_DEBUGGING      == "NO_DEBUGGING"
WH_SHE_ERC_BUSY              == "BUSY"
WH_SHE_ERC_MEMORY_FAILURE    == "MEMORY_FAILURE"
WH_SHE_ERC_GENERAL_ERROR     == "GENERAL_ERROR"
WH_ERROR_OK                  == "WH_ERROR_OK"
WH_ERROR_BADARGS             == "WH_ERROR_BADARGS"
WH_ERROR_NOTFOUND            == "WH_ERROR_NOTFOUND"
\* a negative wolfCrypt / NVM error code
WC_FAILURE                   == "WC_FAILURE"
\* ret == 0
OK                           == "NO_ERROR"

WOLFHSM_SHE_SB_INIT    == "SB_INIT"
WOLFHSM_SHE_SB_UPDATE  == "SB_UPDATE"
WOLFHSM_SHE_SB_FINISH  == "SB_FINISH"
WOLFHSM_SHE_SB_SUCCESS == "SB_SUCCESS"
WOLFHSM_SHE_SB_FAILURE == "SB_FAILURE"

WOLFHSM_SHE_SREG_SECURE_BOOT   == "SREG_SECURE_BOOT"
WOLFHSM_SHE_SREG_BOOT_FINISHED == "SREG_BOOT_FINISHED"
WOLFHSM_SHE_SREG_BOOT_OK       == "SREG_BOOT_OK"
WOLFHSM_SHE_SREG_RND_INIT      == "SREG_RND_INIT"

----------------------------------------------------------------------------
(* SHE slots and metadata flags (wolfhsm/wh_server_she.h) *)

WOLFHSM_SHE_SECRET_KEY_ID     == 0
WOLFHSM_SHE_BOOT_MAC_KEY_ID   == 2
WOLFHSM_SHE_BOOT_MAC          == 3
WOLFHSM_SHE_KEY_1_ID          == 4
WOLFHSM_SHE_RAM_KEY_ID        == 14
WOLFHSM_SHE_PRNG_SEED_ID      == 15

\* the slots the model keeps: the reserved ones and one user slot
Slots == {WOLFHSM_SHE_SECRET_KEY_ID, WOLFHSM_SHE_BOOT_MAC_KEY_ID, WOLFHSM_SHE_BOOT_MAC,
          WOLFHSM_SHE_KEY_1_ID, WOLFHSM_SHE_RAM_KEY_ID,
          WOLFHSM_SHE_PRNG_SEED_ID}

\* bit of the stored flags that hsmShePopFlags takes from M2[3] bit 3
WOLFHSM_SHE_FLAG_WRITE_PROTECT == 128
\* bit of the stored flags that hsmShePopFlags takes from M2[4] bit 7
WOLFHSM_SHE_FLAG_WILDCARD      == 1

HasFlag(flags, bit) == (flags \div bit) % 2 = 1

----------------------------------------------------------------------------
(* 32-bit words as <<hi16, lo16>> *)

U32(n)  == <<n \div 65536, n % 65536>>
U32Max  == <<65535, 65535>>
U32Zero == <<0, 0>>

Add32(a, b) ==
    LET lo == a[2] + b[2]
        hi == a[1] + b[1] + (lo \div 65536)
    IN  <<hi % 65536, lo % 65536>>

Le32(a, b) == a[1] < b[1] \/ (a[1] = b[1] /\ a[2] <= b[2])
Gt32(a, b) == ~Le32(a, b)

Shr4(a) == <<a[1] \div 16, (a[1] % 16) * 4096 + (a[2] \div 16)>>
Shl4(a) == <<(a[1] % 4096) * 16 + (a[2] \div 4096), (a[2] % 4096) * 16>>

Swap16(h) == (h % 256) * 256 + (h \div 256)
Bswap32(a) == <<Swap16(a[2]), Swap16(a[1])>>

----------------------------------------------------------------------------
(* Byte order.  A 4-byte field of a message is named by its big-endian     *)
(* reading; a native load or store swaps the bytes on a little-endian host *)

\* *(uint32_t*)p : the native value of the 4 bytes whose big-endian reading is w
Load32(le, w)  == IF le THEN Bswap32(w) ELSE w
\* *(uint32_t*)p = v : the big-endian reading of the 4 bytes written
Store32(le, v) == IF le THEN Bswap32(v) ELSE v
ntohl(le, v)   == IF le THEN Bswap32(v) ELSE v
htonl(le, v)   == IF le THEN Bswap32(v) ELSE v

----------------------------------------------------------------------------
(* Blocks and crypto primitives, as terms *)

Raw(n)   == <<"raw", n>>
RawKeys  == {Raw(n) : n \in 0..MaxKey}
Const(c) == <<"const", c>>

WOLFHSM_SHE_KEY_UPDATE_ENC_C == Const(1)
WOLFHSM_SHE_KEY_UPDATE_MAC_C == Const(2)
WOLFHSM_SHE_PRNG_KEY_C       == Const(4)
WOLFHSM_SHE_PRNG_SEED_KEY_C  == Const(5)

\* a number for a key term, to drive the arithmetic stand-in of AES on raw blocks
KeyNum(k) == IF k[1] = "raw" THEN k[2]
             ELSE IF k[1] = "mp" THEN k[2][2] + k[3]
             ELSE 0

\* AES of one raw block under key k: a permutation of the raw blocks that is
\* never the identity
AesEncryptBlock(k, b) ==
    Raw((b[2] + 1 + (KeyNum(k) % MaxKey)) % (MaxKey + 1))

\* Miyaguchi-Preneel over two blocks: H1 = E(0,b1)^b1, H2 = E(H1,b2)^b2^H1.
\* Over key || constant the result is kept as a term (a derived key); over two
\* raw blocks it is computed with + for ^ so that the PRNG state stays finite.
wh_AesMp16(b1, b2) ==
    IF b2[1] = "const" THEN <<"mp", b1, b2[2]>>
    ELSE LET h1 == Raw((AesEncryptBlock(Raw(0), b1)[2] + b1[2]) % (MaxKey + 1))
             e  == AesEncryptBlock(h1, b2)
         IN  Raw((e[2] + b2[2] + h1[2]) % (MaxKey + 1))

\* the plaintext of M2: bytes 0..3 (big-endian reading w), bit 7 of byte 4 (wc),
\* bytes 16..31 (key)
M2Plain(w, wc, key) == [w |-> w, wc |-> wc, key |-> key]

\* a plaintext M2 decrypted under the wrong key
Garble(pt) == [pt EXCEPT !.w = Add32(pt.w, U32(16)), !.wc = 1 - pt.wc]

AesCbcEncryptM2(k, pt) == <<"cbc", k, pt>>
AesCbcDecryptM2(k, c)  == IF c[2] = k THEN c[3] ELSE Garble(c[3])

\* AES-CMAC of M1 || M2 under k
CmacM1M2(k, m1, m2) == <<"cmac", k, m1, m2>>

----------------------------------------------------------------------------
(* The boot CMAC accumulator sheCmac *)

NoCmac == [live |-> FALSE, key |-> Raw(0), szBytes |-> U32Zero, good |-> TRUE,
           fed |-> <<0, 0>>]

\* wc_InitCmac_ex with the boot mac key, 12 zero bytes, then the 4 bytes of
\* hsmSheBlSize as they lie in memory
CmacBootInit(le, key, blSize) ==
    [live |-> TRUE, key |-> key, szBytes |-> Store32(le, blSize), good |-> TRUE,
     fed |-> <<0, 0>>]

\* wc_CmacUpdate with a chunk: fed counts the bytes fed as
\* <<chunks of 2^32-1 bytes, bytes of the smaller chunks>>; good says whether
\* every byte so far is the byte of the reference image
CmacBootUpdate(c, sz, good) ==
    [c EXCEPT !.good = c.good /\ good,
              !.fed = IF sz = U32Max THEN <<c.fed[1] + 1, c.fed[2]>>
                      ELSE <<c.fed[1], c.fed[2] + sz[2]>>]

\* wc_CmacFinal
CmacBootFinal(c) == <<"bootmac", c.key, c.szBytes, c.good, c.fed>>

----------------------------------------------------------------------------
(* Keystore (external: hsmReadKey, hsmCacheKey, wh_Nvm_AddObject) *)

NoKey == [present |-> FALSE, key |-> Raw(0), flags |-> 0, count |-> U32Zero]
Entry(key, flags, count) ==
    [present |-> TRUE, key |-> key, flags |-> flags, count |-> count]

\* hsmReadKey: the cache first, then NVM
hsmReadKey(s, id) == IF s.cache[id].present THEN s.cache[id] ELSE s.nvm[id]
\* hsmCacheKey
hsmCacheKey(s, id, e) == [s EXCEPT !.cache[id] = e]
\* wh_Nvm_AddObject
wh_Nvm_AddObject(s, id, e) == [s EXCEPT !.nvm[id] = e]

----------------------------------------------------------------------------
(* The SHE state as one record, for the handlers to map *)

Cur == [uid |-> sheUid, uidSet |-> hsmSheUidSet, sb |-> hsmSheSbState,
        cmacKeyFound |-> hsmSheCmacKeyFound, ramKeyPlain |-> hsmSheRamKeyPlain,
        blSize |-> hsmSheBlSize, blRecv |-> hsmSheBlSizeReceived,
        rndInited |-> hsmSheRndInited, prngState |-> hsmShePrngState,
        prngKey |-> WOLFHSM_SHE_PRNG_KEY, cmac |-> sheCmac,
        nvm |-> nvm, cache |-> cache]

Install(s) ==
    /\ sheUid' = s.uid
    /\ hsmSheUidSet' = s.uidSet
    /\ hsmSheSbState' = s.sb
    /\ hsmSheCmacKeyFound' = s.cmacKeyFound
    /\ hsmSheRamKeyPlain' = s.ramKeyPlain
    /\ hsmSheBlSize' = s.blSize
    /\ hsmSheBlSizeReceived' = s.blRecv
    /\ hsmSheRndInited' = s.rndInited
    /\ hsmShePrngState' = s.prngState
    /\ WOLFHSM_SHE_PRNG_KEY' = s.prngKey
    /\ sheCmac' = s.cmac
    /\ nvm' = s.nvm
    /\ cache' = s.cache

\* what a handler leaves behind: its return value, the state, the response
NoOut == [sreg |-> {}, sz |-> 0, size |-> 0, m |-> <<>>, rnd |-> <<>>]
Res(ret, s, out) == [ret |-> ret, s |-> s, out |-> out]

----------------------------------------------------------------------------
(* SET_UID *)

\* variant: the UID is copied whether or not one is already set
hsmSheSetUidAgain(s, p) ==
    Res(OK, [s EXCEPT !.uid = p.uid, !.uidSet = TRUE], NoOut)

hsmSheSetUid(s, p) ==
    IF s.uidSet THEN Res(WH_SHE_ERC_SEQUENCE_ERROR, s, NoOut)
    ELSE Res(OK, [s EXCEPT !.uid = p.uid, !.uidSet = TRUE], NoOut)

----------------------------------------------------------------------------
(* Secure boot.  f names the call of the environment that fails in this     *)
(* request: "none", "crypto1"/"crypto2" (a wolfCrypt call before/after the  *)
(* keystore write), "store" (the keystore write), "readback" (the read of   *)
(* the slot that follows a successful NVM write in LOAD_KEY).              *)

\* variant: a missing BOOT_MAC_KEY is an error instead of "no secure boot"
hsmSheSecureBootInitKeyRequired(le, s, p, f) ==
    IF s.sb # WOLFHSM_SHE_SB_INIT THEN Res(WH_SHE_ERC_SEQUENCE_ERROR, s, NoOut)
    ELSE IF ~hsmReadKey(s, WOLFHSM_SHE_BOOT_MAC_KEY_ID).present
    THEN Res(WH_SHE_ERC_KEY_NOT_AVAILABLE, [s EXCEPT !.blSize = p.sz], NoOut)
    ELSE IF f = "crypto1"
    THEN Res(WC_FAILURE, [s EXCEPT !.blSize = p.sz, !.cmacKeyFound = TRUE], NoOut)
    ELSE Res(OK, [s EXCEPT !.blSize = p.sz, !.cmacKeyFound = TRUE,
                           !.cmac = CmacBootInit(le,
                               hsmReadKey(s, WOLFHSM_SHE_BOOT_MAC_KEY_ID).key, p.sz),
                           !.sb = WOLFHSM_SHE_SB_UPDATE], NoOut)

hsmSheSecureBootInit(le, s, p, f) ==
    IF s.sb # WOLFHSM_SHE_SB_INIT THEN Res(WH_SHE_ERC_SEQUENCE_ERROR, s, NoOut)
    ELSE LET s1  == [s EXCEPT !.blSize = p.sz]
             key == hsmReadKey(s1, WOLFHSM_SHE_BOOT_MAC_KEY_ID)
         IN  IF ~key.present
             THEN Res(WH_SHE_ERC_NO_SECURE_BOOT,
                      [s1 EXCEPT !.sb = WOLFHSM_SHE_SB_SUCCESS,
                                 !.cmacKeyFound = FALSE], NoOut)
             ELSE IF f = "crypto1"
             THEN Res(WC_FAILURE, [s1 EXCEPT !.cmacKeyFound = TRUE], NoOut)
             ELSE Res(OK, [s1 EXCEPT !.cmacKeyFound = TRUE,
                                     !.cmac = CmacBootInit(le, key.key, p.sz),
                                     !.sb = WOLFHSM_SHE_SB_UPDATE], NoOut)

\* variant: the size received is not compared with the size expected
hsmSheSecureBootUpdateNoLimit(s, p, f) ==
    IF s.sb # WOLFHSM_SHE_SB_UPDATE THEN Res(WH_SHE_ERC_SEQUENCE_ERROR, s, NoOut)
    ELSE LET s1 == [s EXCEPT !.blRecv = Add32(s.blRecv, p.sz)]
         IN  IF f = "crypto1" THEN Res(WC_FAILURE, s1, NoOut)
             ELSE Res(OK, [s1 EXCEPT !.cmac = CmacBootUpdate(s.cmac, p.sz, p.good),
                                     !.sb = IF s1.blRecv = s1.blSize
                                            THEN WOLFHSM_SHE_SB_FINISH
                                            ELSE s.sb], NoOut)

hsmSheSecureBootUpdate(s, p, f) ==
    IF s.sb # WOLFHSM_SHE_SB_UPDATE THEN Res(WH_SHE_ERC_SEQUENCE_ERROR, s, NoOut)
    ELSE LET s1 == [s EXCEPT !.blRecv = Add32(s.blRecv, p.sz)]
         IN  IF Gt32(s1.blRecv, s1.blSize)
             THEN Res(WH_SHE_ERC_SEQUENCE_ERROR, s1, NoOut)
             ELSE IF f = "crypto1" THEN Res(WC_FAILURE, s1, NoOut)
             ELSE Res(OK, [s1 EXCEPT !.cmac = CmacBootUpdate(s.cmac, p.sz, p.good),
                                     !.sb = IF s1.blRecv = s1.blSize
                                            THEN WOLFHSM_SHE_SB_FINISH
                                            ELSE s.sb], NoOut)

\* hsmSheSecureBootFinish once the state is known to be FINISH: the digest is
\* finished and compared with BOOT_MAC
CompareBootMac(s, f) ==
    IF f = "crypto1" THEN Res(WC_FAILURE, s, NoOut)
    ELSE LET cmacOutput == CmacBootFinal(s.cmac)
             s1         == [s EXCEPT !.cmac = NoCmac]
             macDigest  == hsmReadKey(s1, WOLFHSM_SHE_BOOT_MAC)
         IN  IF ~macDigest.present
             THEN Res(WH_SHE_ERC_KEY_NOT_AVAILABLE, s1, NoOut)
             ELSE IF cmacOutput = macDigest.key
             THEN Res(OK, [s1 EXCEPT !.sb = WOLFHSM_SHE_SB_SUCCESS], NoOut)
             ELSE Res(WH_SHE_ERC_GENERAL_ERROR,
                      [s1 EXCEPT !.sb = WOLFHSM_SHE_SB_FAILURE], NoOut)

\* variant: the state is not looked at
hsmSheSecureBootFinishInAnyState(s, f) == CompareBootMac(s, f)

hsmSheSecureBootFinish(s, f) ==
    IF s.sb # WOLFHSM_SHE_SB_FINISH THEN Res(WH_SHE_ERC_SEQUENCE_ERROR, s, NoOut)
    ELSE CompareBootMac(s, f)

----------------------------------------------------------------------------
(* GET_STATUS *)

\* variant: the SECURE_BOOT bit is never set
hsmSheGetStatusNoSecureBootBit(s) ==
    LET sreg == (IF s.sb \in {WOLFHSM_SHE_SB_SUCCESS, WOLFHSM_SHE_SB_FAILURE}
                 THEN {WOLFHSM_SHE_SREG_BOOT_FINISHED} ELSE {})
           \cup (IF s.sb = WOLFHSM_SHE_SB_SUCCESS
                 THEN {WOLFHSM_SHE_SREG_BOOT_OK} ELSE {})
           \cup (IF s.rndInited THEN {WOLFHSM_SHE_SREG_RND_INIT} ELSE {})
    IN  Res(OK, s, [NoOut EXCEPT !.sreg = sreg])

hsmSheGetStatus(s) ==
    LET sreg == (IF s.cmacKeyFound THEN {WOLFHSM_SHE_SREG_SECURE_BOOT} ELSE {})
           \cup (IF s.sb \in {WOLFHSM_SHE_SB_SUCCESS, WOLFHSM_SHE_SB_FAILURE}
                 THEN {WOLFHSM_SHE_SREG_BOOT_FINISHED} ELSE {})
           \cup (IF s.sb = WOLFHSM_SHE_SB_SUCCESS
                 THEN {WOLFHSM_SHE_SREG_BOOT_OK} ELSE {})
           \cup (IF s.rndInited THEN {WOLFHSM_SHE_SREG_RND_INIT} ELSE {})
    IN  Res(OK, s, [NoOut EXCEPT !.sreg = sreg])

----------------------------------------------------------------------------
(* LOAD_KEY *)

hsmShePopAuthId(m1) == m1.auth
hsmShePopId(m1)     == m1.id
hsmShePopFlags(pt)  == (pt.w[2] % 16) * 16 + pt.wc

\* XMEMEQZERO(messageOne, WOLFHSM_SHE_UID_SZ): the loop stops before index 0, so
\* byte 0 is never looked at.  UID 0 is all zero, UID 1 differs in byte 0 only.
XMEMEQZERO(uid) == uid \in {0, 1}

\* variant: the write protection is looked for in the wrong flag bit
WriteAllowedTestsWildcard(target) ==
    ~target.present \/ ~HasFlag(target.flags, WOLFHSM_SHE_FLAG_WILDCARD)

\* the slot is empty or its write protection is off
WriteAllowed(target) ==
    ~target.present \/ ~HasFlag(target.flags, WOLFHSM_SHE_FLAG_WRITE_PROTECT)

\* the UID / wildcard check; junk is the WILDCARD bit read from the
\* uninitialised meta when the target slot was not found
UidAllowed(s, m1, target, junk) ==
    IF XMEMEQZERO(m1.uid)
    THEN IF target.present THEN HasFlag(target.flags, WOLFHSM_SHE_FLAG_WILDCARD)
         ELSE junk
    ELSE m1.uid = s.uid

\* the count written to the metadata: *(uint32_t*)messageTwo >> 4
NewCount(le, pt) == Shr4(Load32(le, pt.w))

\* ntohl(new >> 4) <= ntohl(stored count)
CounterRejected(le, pt, target) ==
    target.present /\ Le32(ntohl(le, NewCount(le, pt)), ntohl(le, target.count))

\* variant: every slot is written to NVM
WriteKeyToNvmAlways(s, id, e) == wh_Nvm_AddObject(s, id, e)

\* write key with counter: cache if ram key, overwrite otherwise
WriteKeyWithCounter(s, id, e) ==
    IF id = WOLFHSM_SHE_RAM_KEY_ID THEN hsmCacheKey(s, id, e)
    ELSE wh_Nvm_AddObject(s, id, e)

\* variant: the slot is written before M3 is compared
hsmSheLoadKeyWritesFirst(le, s, p, f) ==
    LET auth == hsmReadKey(s, hsmShePopAuthId(p.m1))
        k2   == wh_AesMp16(auth.key, WOLFHSM_SHE_KEY_UPDATE_MAC_C)
        k1   == wh_AesMp16(auth.key, WOLFHSM_SHE_KEY_UPDATE_ENC_C)
        s1   == [s EXCEPT !.cmac = NoCmac]
        pt   == AesCbcDecryptM2(k1, p.m2)
        id   == hsmShePopId(p.m1)
        target == hsmReadKey(s1, id)
        e    == Entry(pt.key, hsmShePopFlags(pt), NewCount(le, pt))
        s2   == WriteKeyWithCounter(s1, id, e)
    IN  IF ~auth.present THEN Res(WH_SHE_ERC_KEY_NOT_AVAILABLE, s, NoOut)
        ELSE IF f = "crypto1" THEN Res(WC_FAILURE, s, NoOut)
        ELSE IF p.m3 # CmacM1M2(k2, p.m1, p.m2)
        THEN Res(WH_SHE_ERC_KEY_UPDATE_ERROR, s2, NoOut)
        ELSE IF ~WriteAllowed(target)
        THEN Res(WH_SHE_ERC_WRITE_PROTECTED, s1, NoOut)
        ELSE IF ~UidAllowed(s1, p.m1, target, p.junk)
        THEN Res(WH_SHE_ERC_KEY_UPDATE_ERROR, s1, NoOut)
        ELSE IF CounterRejected(le, pt, target)
        THEN Res(WH_SHE_ERC_KEY_UPDATE_ERROR, s1, NoOut)
        ELSE IF f = "store" THEN Res(WH_SHE_ERC_KEY_UPDATE_ERROR, s1, NoOut)
        ELSE IF f = "crypto2" THEN Res(WC_FAILURE, s2, NoOut)
        ELSE Res(OK, [s2 EXCEPT !.ramKeyPlain =
                         IF id = WOLFHSM_SHE_RAM_KEY_ID THEN TRUE ELSE @], NoOut)

hsmSheLoadKey(le, s, p, f) ==
    LET auth == hsmReadKey(s, hsmShePopAuthId(p.m1))
        k2   == wh_AesMp16(auth.key, WOLFHSM_SHE_KEY_UPDATE_MAC_C)
        k1   == wh_AesMp16(auth.key, WOLFHSM_SHE_KEY_UPDATE_ENC_C)
        s1   == [s EXCEPT !.cmac = NoCmac]
        pt   == AesCbcDecryptM2(k1, p.m2)
        id   == hsmShePopId(p.m1)
        target == hsmReadKey(s1, id)
        e    == Entry(pt.key, hsmShePopFlags(pt), NewCount(le, pt))
        s2   == WriteKeyWithCounter(s1, id, e)
    IN  IF ~auth.present THEN Res(WH_SHE_ERC_KEY_NOT_AVAILABLE, s, NoOut)
        ELSE IF f = "crypto1" THEN Res(WC_FAILURE, s, NoOut)
        ELSE IF p.m3 # CmacM1M2(k2, p.m1, p.m2)
        THEN Res(WH_SHE_ERC_KEY_UPDATE_ERROR, s1, NoOut)
        ELSE IF ~WriteAllowed(target)
        THEN Res(WH_SHE_ERC_WRITE_PROTECTED, s1, NoOut)
        ELSE IF ~UidAllowed(s1, p.m1, target, p.junk)
        THEN Res(WH_SHE_ERC_KEY_UPDATE_ERROR, s1, NoOut)
        ELSE IF CounterRejected(le, pt, target)
        THEN Res(WH_SHE_ERC_KEY_UPDATE_ERROR, s1, NoOut)
        ELSE IF f = "store" THEN Res(WH_SHE_ERC_KEY_UPDATE_ERROR, s1, NoOut)
        ELSE IF f = "readback" /\ id # WOLFHSM_SHE_RAM_KEY_ID
        THEN Res(WH_SHE_ERC_KEY_UPDATE_ERROR, s2, NoOut)
        ELSE IF f = "crypto2" THEN Res(WC_FAILURE, s2, NoOut)
        ELSE Res(OK, [s2 EXCEPT !.ramKeyPlain =
                         IF id = WOLFHSM_SHE_RAM_KEY_ID THEN TRUE ELSE @], NoOut)

----------------------------------------------------------------------------
(* LOAD_PLAIN_KEY, EXPORT_RAM_KEY *)

\* variant: ram_key_plain is set whether or not the key was cached
hsmSheLoadPlainKeyMarksAlways(s, p, f) ==
    IF f = "store" THEN Res(WC_FAILURE, [s EXCEPT !.ramKeyPlain = TRUE], NoOut)
    ELSE Res(OK, [hsmCacheKey(s, WOLFHSM_SHE_RAM_KEY_ID, Entry(p.key, 0, U32Zero))
                  EXCEPT !.ramKeyPlain = TRUE], NoOut)

hsmSheLoadPlainKey(s, p, f) ==
    IF f = "store" THEN Res(WC_FAILURE, s, NoOut)
    ELSE Res(OK, [hsmCacheKey(s, WOLFHSM_SHE_RAM_KEY_ID, Entry(p.key, 0, U32Zero))
                  EXCEPT !.ramKeyPlain = TRUE], NoOut)

hsmSheExportRamKey(le, s, f) ==
    LET secret == hsmReadKey(s, WOLFHSM_SHE_SECRET_KEY_ID)
        ram    == hsmReadKey(s, WOLFHSM_SHE_RAM_KEY_ID)
        k1     == wh_AesMp16(secret.key, WOLFHSM_SHE_KEY_UPDATE_ENC_C)
        k2     == wh_AesMp16(secret.key, WOLFHSM_SHE_KEY_UPDATE_MAC_C)
        m1     == [uid |-> s.uid, id |-> WOLFHSM_SHE_RAM_KEY_ID,
                   auth |-> WOLFHSM_SHE_SECRET_KEY_ID]
        \* *(uint32_t*)messageTwo = (htonl(1) << 4)
        m2     == AesCbcEncryptM2(k1,
                      M2Plain(Store32(le, Shl4(htonl(le, U32(1)))), 0, ram.key))
        m3     == CmacM1M2(k2, m1, m2)
    IN  IF ~s.ramKeyPlain THEN Res(WH_SHE_ERC_KEY_INVALID, s, NoOut)
        ELSE IF ~secret.present THEN Res(WH_SHE_ERC_KEY_NOT_AVAILABLE, s, NoOut)
        ELSE IF f = "crypto1" THEN Res(WC_FAILURE, s, NoOut)
        ELSE IF ~ram.present THEN Res(WH_SHE_ERC_KEY_NOT_AVAILABLE, s, NoOut)
        ELSE IF f = "crypto2" THEN Res(WC_FAILURE, s, NoOut)
        ELSE Res(OK, [s EXCEPT !.cmac = NoCmac],
                 [NoOut EXCEPT !.m = <<m1, m2, m3>>])

----------------------------------------------------------------------------
(* INIT_RND, RND, EXTEND_SEED *)

hsmSheInitRnd(s, f) ==
    LET secret  == hsmReadKey(s, WOLFHSM_SHE_SECRET_KEY_ID)
        seedKey == wh_AesMp16(secret.key, WOLFHSM_SHE_PRNG_SEED_KEY_C)
        seed    == hsmReadKey(s, WOLFHSM_SHE_PRNG_SEED_ID)
        next    == AesEncryptBlock(seedKey, seed.key)
        s1      == wh_Nvm_AddObject(s, WOLFHSM_SHE_PRNG_SEED_ID,
                                    [seed EXCEPT !.key = next])
        s2      == [s1 EXCEPT !.prngState = next]
    IN  IF s.rndInited THEN Res(WH_SHE_ERC_SEQUENCE_ERROR, s, NoOut)
        ELSE IF ~secret.present THEN Res(WH_SHE_ERC_KEY_NOT_AVAILABLE, s, NoOut)
        ELSE IF f = "crypto1" THEN Res(WC_FAILURE, s, NoOut)
        ELSE IF ~seed.present THEN Res(WH_SHE_ERC_KEY_NOT_AVAILABLE, s, NoOut)
        ELSE IF f = "store" THEN Res(WH_SHE_ERC_KEY_UPDATE_ERROR, s, NoOut)
        ELSE IF f = "crypto2" THEN Res(WC_FAILURE, s2, NoOut)
        ELSE Res(OK, [s2 EXCEPT !.prngKey =
                          wh_AesMp16(secret.key, WOLFHSM_SHE_PRNG_KEY_C),
                                !.rndInited = TRUE], NoOut)

hsmSheRnd(s, f) ==
    LET next == AesEncryptBlock(s.prngKey, s.prngState)
    IN  IF ~s.rndInited THEN Res(WH_SHE_ERC_RNG_SEED, s, NoOut)
        ELSE IF f = "crypto1" THEN Res(WC_FAILURE, s, NoOut)
        ELSE Res(OK, [s EXCEPT !.prngState = next], [NoOut EXCEPT !.rnd = next])

\* variant: PRNG_STATE is extended before rnd_inited is looked at
hsmSheExtendSeedBeforeCheck(s, p, f) ==
    Res(WH_SHE_ERC_RNG_SEED,
        [s EXCEPT !.prngState = wh_AesMp16(s.prngState, p.entropy)], NoOut)

hsmSheExtendSeed(s, p, f) ==
    LET s1   == [s EXCEPT !.prngState = wh_AesMp16(s.prngState, p.entropy)]
        seed == hsmReadKey(s1, WOLFHSM_SHE_PRNG_SEED_ID)
        s2   == wh_Nvm_AddObject(s1, WOLFHSM_SHE_PRNG_SEED_ID,
                    [seed EXCEPT !.key = wh_AesMp16(seed.key, p.entropy)])
    IN  IF ~s.rndInited THEN Res(WH_SHE_ERC_RNG_SEED, s, NoOut)
        ELSE IF f = "crypto1" THEN Res(WC_FAILURE, s, NoOut)
        ELSE IF ~seed.present THEN Res(WH_SHE_ERC_KEY_NOT_AVAILABLE, s1, NoOut)
        ELSE IF f = "crypto2" THEN Res(WC_FAILURE, s1, NoOut)
        ELSE IF f = "store" THEN Res(WH_SHE_ERC_KEY_UPDATE_ERROR, s1, NoOut)
        ELSE Res(OK, s2, NoOut)

----------------------------------------------------------------------------
(* ENC_ECB, ENC_CBC, DEC_ECB, DEC_CBC: the four handlers differ in the AES  *)
(* mode only; the response carries field = sz - sz % 16 bytes               *)

AES_BLOCK_SIZE == 16

\* the sizes of the packet stub and of the fixed response struct {sz}
WOLFHSM_PACKET_STUB_SIZE == 8
SheEncResSize == 4

\* a value stored into a uint16_t
U16(n) == n % 65536

\* only process a multiple of block size
TruncateToBlocks(sz) == sz - (sz % AES_BLOCK_SIZE)

\* out.sz is the sz field of the response, out.size the value left in the
\* uint16_t *size (the *size of the other handlers is not modelled)
hsmSheEncDec(s, p, f) ==
    LET field == TruncateToBlocks(p.sz)
        key   == hsmReadKey(s, p.keyId)
    IN  IF ~key.present THEN Res(WH_SHE_ERC_KEY_NOT_AVAILABLE, s, NoOut)
        ELSE IF f = "crypto1" THEN Res(WC_FAILURE, s, NoOut)
        ELSE Res(OK, s,
                 [NoOut EXCEPT !.sz = field,
                               !.size = U16(WOLFHSM_PACKET_STUB_SIZE
                                            + SheEncResSize + field)])

hsmSheEncEcb(s, p, f) == hsmSheEncDec(s, p, f)
hsmSheEncCbc(s, p, f) == hsmSheEncDec(s, p, f)
hsmSheDecEcb(s, p, f) == hsmSheEncDec(s, p, f)
hsmSheDecCbc(s, p, f) == hsmSheEncDec(s, p, f)

----------------------------------------------------------------------------
(* wh_Server_HandleSheRequest *)

\* the pre-dispatch gate: the request is answered SEQUENCE_ERROR
\* variant: the gate without its "UID not yet set" half
GateRejectsBeforeBootOnly(s, action) ==
    /\ s.sb # WOLFHSM_SHE_SB_SUCCESS
    /\ action \notin SecureBootActions \cup {WH_SHE_GET_STATUS, WH_SHE_SET_UID}

\* variant: the gate without its "not yet booted" half
GateRejectsWithoutUidOnly(s, action) == action # WH_SHE_SET_UID /\ ~s.uidSet

GateRejects(s, action) ==
    \/ /\ s.sb # WOLFHSM_SHE_SB_SUCCESS
       /\ action # WH_SHE_SECURE_BOOT_INIT
       /\ action # WH_SHE_SECURE_BOOT_UPDATE
       /\ action # WH_SHE_SECURE_BOOT_FINISH
       /\ action # WH_SHE_GET_STATUS
       /\ action # WH_SHE_SET_UID
    \/ (action # WH_SHE_SET_UID /\ ~s.uidSet)

\* the switch
Handler(le, s, action, p, f) ==
    CASE action = WH_SHE_SET_UID            -> hsmSheSetUid(s, p)
      [] action = WH_SHE_SECURE_BOOT_INIT   -> hsmSheSecureBootInit(le, s, p, f)
      [] action = WH_SHE_SECURE_BOOT_UPDATE -> hsmSheSecureBootUpdate(s, p, f)
      [] action = WH_SHE_SECURE_BOOT_FINISH -> hsmSheSecureBootFinish(s, f)
      [] action = WH_SHE_GET_STATUS         -> hsmSheGetStatus(s)
      [] action = WH_SHE_LOAD_KEY           -> hsmSheLoadKey(le, s, p, f)
      [] action = WH_SHE_LOAD_PLAIN_KEY     -> hsmSheLoadPlainKey(s, p, f)
      [] action = WH_SHE_EXPORT_RAM_KEY     -> hsmSheExportRamKey(le, s, f)
      [] action = WH_SHE_INIT_RND           -> hsmSheInitRnd(s, f)
      [] action = WH_SHE_RND                -> hsmSheRnd(s, f)
      [] action = WH_SHE_EXTEND_SEED        -> hsmSheExtendSeed(s, p, f)
      [] action = WH_SHE_ENC_ECB            -> hsmSheEncEcb(s, p, f)
      [] action = WH_SHE_ENC_CBC            -> hsmSheEncCbc(s, p, f)
      [] action = WH_SHE_DEC_ECB            -> hsmSheDecEcb(s, p, f)
      [] action = WH_SHE_DEC_CBC            -> hsmSheDecCbc(s, p, f)
      [] OTHER                              -> Res(WH_ERROR_BADARGS, s, NoOut)

\* variant: the handler's result is written into rc as it is
NormaliseRetKeepsResult(ret) == ret

\* if a handler didn't set a specific error, set general error
NormaliseRet(ret) ==
    IF ret # OK /\ ret # WH_SHE_ERC_SEQUENCE_ERROR
                /\ ret # WH_SHE_ERC_KEY_NOT_AVAILABLE
                /\ ret # WH_SHE_ERC_KEY_INVALID
                /\ ret # WH_SHE_ERC_KEY_EMPTY
                /\ ret # WH_SHE_ERC_NO_SECURE_BOOT
                /\ ret # WH_SHE_ERC_WRITE_PROTECTED
                /\ ret # WH_SHE_ERC_KEY_UPDATE_ERROR
                /\ ret # WH_SHE_ERC_RNG_SEED
                /\ ret # WH_SHE_ERC_NO_DEBUGGING
                /\ ret # WH_SHE_ERC_BUSY
                /\ ret # WH_SHE_ERC_MEMORY_FAILURE
    THEN WH_SHE_ERC_GENERAL_ERROR
    ELSE ret

\* variant: the reset forgets the two sizes
ResetSheStateKeepsSizes(s, action, ret) ==
    IF action \in SecureBootActions /\ ret # OK /\ ret # WH_SHE_ERC_NO_SECURE_BOOT
    THEN [s EXCEPT !.sb = WOLFHSM_SHE_SB_INIT, !.cmacKeyFound = FALSE]
    ELSE s

\* variant: the reset runs after a failure of any action
ResetSheStateAnyAction(s, action, ret) ==
    IF ret # OK /\ ret # WH_SHE_ERC_NO_SECURE_BOOT
    THEN [s EXCEPT !.sb = WOLFHSM_SHE_SB_INIT, !.blSize = U32Zero,
                   !.blRecv = U32Zero, !.cmacKeyFound = FALSE]
    ELSE s

\* variant: the reset leaves cmac_key_found as it is
ResetSheStateKeepsKeyFound(s, action, ret) ==
    IF action \in SecureBootActions /\ ret # OK /\ ret # WH_SHE_ERC_NO_SECURE_BOOT
    THEN [s EXCEPT !.sb = WOLFHSM_SHE_SB_INIT, !.blSize = U32Zero,
                   !.blRecv = U32Zero]
    ELSE s

\* reset our SHE state
ResetSheState(s, action, ret) ==
    IF action \in SecureBootActions /\ ret # OK /\ ret # WH_SHE_ERC_NO_SECURE_BOOT
    THEN [s EXCEPT !.sb = WOLFHSM_SHE_SB_INIT, !.blSize = U32Zero,
                   !.blRecv = U32Zero, !.cmacKeyFound = FALSE]
    ELSE s

\* the rc written when the call returned WH_ERROR_BADARGS: none
NoRc == "none"

\* the end of the dispatcher once the handler returned h: the return value is
\* normalised, the secure-boot state reset, the rc written
Respond(action, h) ==
    [ret |-> WH_ERROR_OK, rc |-> NormaliseRet(h.ret), ran |-> TRUE,
     s |-> ResetSheState(h.s, action, NormaliseRet(h.ret)),
     out |-> IF NormaliseRet(h.ret) = OK THEN h.out ELSE NoOut]

\* wh_Server_HandleSheRequest with non-null server, data and size, as a
\* function of the state s and the request (action, packet p, failure f): the
\* value returned, the rc written into the packet, whether the handler ran,
\* the state left behind and the response fields
wh_Server_HandleSheRequest(le, s, action, p, f) ==
    IF GateRejects(s, action)
    THEN [ret |-> WH_ERROR_OK, rc |-> WH_SHE_ERC_SEQUENCE_ERROR, ran |-> FALSE,
          s |-> s, out |-> NoOut]
    ELSE Respond(action, Handler(le, s, action, p, f))

\* the record of the last call: the action, whether an argument was null, the
\* value returned, the rc in the packet, whether the handler ran, the response
Call(action, null, ret, rc, ran, out) ==
    [action |-> action, null |-> null, ret |-> ret, rc |-> rc, ran |-> ran,
     out |-> out]

\* the outcome of request r = [action, p, f] in the current state
Outcome(r) == wh_Server_HandleSheRequest(littleEndian, Cur, r.action, r.p, r.f)

\* the dispatcher returns o for request r: the state and the call record
Return(r, o) ==
    /\ Install(o.s)
    /\ call' = Call(r.action, FALSE, o.ret, o.rc, o.ran, o.out)

\* one call of the dispatcher with request r
Request(r) == Return(r, Outcome(r))

\* a call with a null server, data or size
HandleNullArgs ==
    /\ \E action \in Actions :
           call' = Call(action, TRUE, WH_ERROR_BADARGS, NoRc, FALSE, NoOut)
    /\ Install(Cur)
    /\ UNCHANGED fixed

----------------------------------------------------------------------------
(* The keystore at startup *)

\* size and digest of the bootloader image the store was provisioned for
RefBlSize == U32(1)
RefBootMac(le, key) ==
    CmacBootFinal(CmacBootUpdate(CmacBootInit(le, key, RefBlSize), RefBlSize, TRUE))

EmptyStore == [id \in Slots |-> NoKey]

\* SECRET_KEY only: the device boots without secure boot
StoreNoSeed ==
    [EmptyStore EXCEPT ![WOLFHSM_SHE_SECRET_KEY_ID] = Entry(Raw(0), 0, U32Zero)]
\* SECRET_KEY and PRNG_SEED
StoreNoBoot ==
    [StoreNoSeed EXCEPT ![WOLFHSM_SHE_PRNG_SEED_ID] = Entry(Raw(0), 0, U32Zero)]
\* SECRET_KEY, BOOT_MAC_KEY and the BOOT_MAC of the reference image
StoreBoot(le) ==
    [StoreNoSeed EXCEPT ![WOLFHSM_SHE_BOOT_MAC_KEY_ID] = Entry(Raw(1), 0, U32Zero),
                        ![WOLFHSM_SHE_BOOT_MAC] =
                            Entry(RefBootMac(le, Raw(1)), 0, U32Zero)]
\* BOOT_MAC_KEY without BOOT_MAC, no SECRET_KEY, no PRNG_SEED
StoreNoMac ==
    [EmptyStore EXCEPT ![WOLFHSM_SHE_BOOT_MAC_KEY_ID] = Entry(Raw(1), 0, U32Zero)]

\* SECRET_KEY, BOOT_MAC_KEY, BOOT_MAC and PRNG_SEED
StoreFull(le) ==
    [StoreBoot(le) EXCEPT ![WOLFHSM_SHE_PRNG_SEED_ID] = Entry(Raw(0), 0, U32Zero)]

Store(st, le) == IF st = "boot" THEN StoreBoot(le)
                 ELSE IF st = "full" THEN StoreFull(le)
                 ELSE IF st = "empty" THEN EmptyStore
                 ELSE IF st = "nomac" THEN StoreNoMac
                 ELSE IF st = "noseed" THEN StoreNoSeed
                 ELSE StoreNoBoot

----------------------------------------------------------------------------
(* The shared-memory transport (src/src/wh_transport_mem.c).  A buffer is a *)
(* CSR {notify, len, ack, wait} followed by its payload.  No function reads *)
(* or sets ack and wait, they are left out.  A call is a function of the    *)
(* shared memory, the context's initialized flag and the arguments; its    *)
(* result is the return code, the memory and the caller's data and out_len. *)

WH_ERROR_NOTREADY == "WH_ERROR_NOTREADY"

\* a pointer argument: NULL, or the object it points to
NULL == [null |-> TRUE, v |-> <<>>]
\* a NULL uint16_t*
NULL_LEN == [null |-> TRUE, v |-> 0]
Ptr(v) == [null |-> FALSE, v |-> v]

Bytes == 0..1
ZeroPayload == [i \in 1..PayloadSize |-> 0]
Csr(notify, len) == [notify |-> notify, len |-> len]
ZeroCsr == Csr(0, 0)

Mem(rq, rqd, rs, rsd) == [req |-> rq, req_data |-> rqd, resp |-> rs, resp_data |-> rsd]
Shm == Mem(req, req_data, resp, resp_data)
ZeroMem == Mem(ZeroCsr, ZeroPayload, ZeroCsr, ZeroPayload)

\* variant: the last of the n bytes is not copied
memcpyShort(dst, src, n) == [i \in 1..Len(dst) |-> IF i < n THEN src[i] ELSE dst[i]]

\* the first n bytes of dst replaced by those of src
memcpy(dst, src, n) == [i \in 1..Len(dst) |-> IF i <= n THEN src[i] ELSE dst[i]]

TRet(rc, m, inited, data, out_len) ==
    [rc |-> rc, m |-> m, initialized |-> inited, data |-> data, out_len |-> out_len]

\* cfOk: neither the config nor its buffers are NULL and no size is zero
wh_TransportMem_Init(m, inited, cfOk) ==
    IF ~cfOk THEN TRet(WH_ERROR_BADARGS, m, inited, NULL, NULL_LEN)
    ELSE TRet(WH_ERROR_OK, m, TRUE, NULL, NULL_LEN)

wh_TransportMem_InitClear(m, inited, cfOk) ==
    LET i == wh_TransportMem_Init(m, inited, cfOk)
    IN  IF i.rc = WH_ERROR_OK THEN [i EXCEPT !.m = ZeroMem] ELSE i

wh_TransportMem_Cleanup(m, inited) == TRet(WH_ERROR_OK, m, FALSE, NULL, NULL_LEN)

\* variant: the counter is incremented in a wider integer and stored unreduced
wh_TransportMem_SendRequestWide(m, inited, len, data) ==
    IF ~inited THEN TRet(WH_ERROR_BADARGS, m, inited, data, NULL_LEN)
    ELSE IF m.req.notify # m.resp.notify
    THEN TRet(WH_ERROR_NOTREADY, m, inited, data, NULL_LEN)
    ELSE TRet(WH_ERROR_OK,
              [m EXCEPT !.req_data = IF ~data.null /\ len # 0
                                     THEN memcpy(@, data.v, len) ELSE @,
                        !.req = Csr(@.notify + 1, len)],
              inited, data, NULL_LEN)

wh_TransportMem_SendRequest(m, inited, len, data) ==
    IF ~inited THEN TRet(WH_ERROR_BADARGS, m, inited, data, NULL_LEN)
    ELSE IF m.req.notify # m.resp.notify
    THEN TRet(WH_ERROR_NOTREADY, m, inited, data, NULL_LEN)
    ELSE TRet(WH_ERROR_OK,
              [m EXCEPT !.req_data = IF ~data.null /\ len # 0
                                     THEN memcpy(@, data.v, len) ELSE @,
                        !.req = Csr(U16(@.notify + 1), len)],
              inited, data, NULL_LEN)

\* variant: *out_len is set before the counters are compared
wh_TransportMem_RecvRequestLenFirst(m, inited, out_len, data) ==
    IF ~inited THEN TRet(WH_ERROR_BADARGS, m, inited, data, out_len)
    ELSE IF m.req.notify = m.resp.notify
    THEN TRet(WH_ERROR_NOTREADY, m, inited, data,
              IF ~out_len.null THEN Ptr(m.req.len) ELSE out_len)
    ELSE TRet(WH_ERROR_OK, m, inited,
              IF ~data.null /\ m.req.len # 0
              THEN Ptr(memcpy(data.v, m.req_data, m.req.len)) ELSE data,
              IF ~out_len.null THEN Ptr(m.req.len) ELSE out_len)

wh_TransportMem_RecvRequest(m, inited, out_len, data) ==
    IF ~inited THEN TRet(WH_ERROR_BADARGS, m, inited, data, out_len)
    ELSE IF m.req.notify = m.resp.notify
    THEN TRet(WH_ERROR_NOTREADY, m, inited, data, out_len)
    ELSE TRet(WH_ERROR_OK, m, inited,
              IF ~data.null /\ m.req.len # 0
              THEN Ptr(memcpy(data.v, m.req_data, m.req.len)) ELSE data,
              IF ~out_len.null THEN Ptr(m.req.len) ELSE out_len)

\* variant: the response counter is incremented like the request counter
wh_TransportMem_SendResponseCounts(m, inited, len, data) ==
    IF ~inited THEN TRet(WH_ERROR_BADARGS, m, inited, data, NULL_LEN)
    ELSE TRet(WH_ERROR_OK,
              [m EXCEPT !.resp_data = IF ~data.null /\ len # 0
                                      THEN memcpy(@, data.v, len) ELSE @,
                        !.resp = Csr(U16(@.notify + 1), len)],
              inited, data, NULL_LEN)

wh_TransportMem_SendResponse(m, inited, len, data) ==
    IF ~inited THEN TRet(WH_ERROR_BADARGS, m, inited, data, NULL_LEN)
    ELSE TRet(WH_ERROR_OK,
              [m EXCEPT !.resp_data = IF ~data.null /\ len # 0
                                      THEN memcpy(@, data.v, len) ELSE @,
                        !.resp = Csr(m.req.notify, len)],
              inited, data, NULL_LEN)

wh_TransportMem_RecvResponse(m, inited, out_len, data) ==
    IF ~inited THEN TRet(WH_ERROR_BADARGS, m, inited, data, out_len)
    ELSE IF m.resp.notify # m.req.notify
    THEN TRet(WH_ERROR_NOTREADY, m, inited, data, out_len)
    ELSE TRet(WH_ERROR_OK, m, inited,
              IF ~data.null /\ m.resp.len # 0
              THEN Ptr(memcpy(data.v, m.resp_data, m.resp.len)) ELSE data,
              IF ~out_len.null THEN Ptr(m.resp.len) ELSE out_len)

\* variant: the client table names the Init that keeps the buffers
ClientInitKeeps(m, inited, cfOk) == wh_TransportMem_Init(m, inited, cfOk)

\* the callback tables: whTransportClientCb and whTransportServerCb
ClientInit(m, inited, cfOk) == wh_TransportMem_InitClear(m, inited, cfOk)
ServerInit(m, inited, cfOk) == wh_TransportMem_Init(m, inited, cfOk)

TCall(who, op, rc) == [who |-> who, op |-> op, rc |-> rc]
NoTCall == TCall("client", "Cleanup", WH_ERROR_OK)

Idle == [client |-> "idle", server |-> "idle"]

\* both contexts and both buffers as the program's start-up leaves them
TransportIdle ==
    /\ req = ZeroCsr
    /\ req_data = ZeroPayload
    /\ resp = ZeroCsr
    /\ resp_data = ZeroPayload
    /\ initialized = [client |-> FALSE, server |-> FALSE]
    /\ tcall = NoTCall
    /\ proc = Idle

InitialCall == Call(WH_SHE_GET_STATUS, TRUE, WH_ERROR_BADARGS, NoRc, FALSE, NoOut)

InitShe(in) ==
    /\ littleEndian \in BOOLEAN
    /\ sheUid = 0
    /\ hsmSheUidSet = FALSE
    /\ hsmSheSbState = WOLFHSM_SHE_SB_INIT
    /\ hsmSheCmacKeyFound = FALSE
    /\ hsmSheRamKeyPlain = FALSE
    /\ hsmSheBlSize = U32Zero
    /\ hsmSheBlSizeReceived = U32Zero
    /\ hsmSheRndInited = FALSE
    /\ hsmShePrngState = Raw(0)
    /\ WOLFHSM_SHE_PRNG_KEY = Raw(0)
    /\ sheCmac = NoCmac
    /\ nvm \in {Store(st, littleEndian) : st \in in.stores}
    /\ cache = EmptyStore
    /\ call = InitialCall

InitWith(in) == InitShe(in) /\ TransportIdle

----------------------------------------------------------------------------
(* The requests a client sends: records [action, p, f] *)

Req(action, p, f) == [action |-> action, p |-> p, f |-> f]
NoPacket == [sz |-> U32Zero]

Uids     == 0..MaxUid
BlSizes  == {U32(n) : n \in 0..MaxBlSize}
Counters == 0..MaxCounter

\* bytes 0..3 of a plaintext M2: the 28-bit counter, then the flag nibble
M2Word(ctr, nib) == U32(ctr * 16 + nib)

\* M1, M2, M3 as built by a client that computes M3 with macKey and encrypts M2
\* under encKey; the fields below m3 say how the request was built
LoadKeyPacket(uid, id, auth, ctr, fl, key, macKey, encKey, junk) ==
    LET m1 == [uid |-> uid, id |-> id, auth |-> auth]
        m2 == AesCbcEncryptM2(wh_AesMp16(encKey, WOLFHSM_SHE_KEY_UPDATE_ENC_C),
                              M2Plain(M2Word(ctr, fl[1]), fl[2], key))
    IN  [m1 |-> m1, m2 |-> m2,
         m3 |-> CmacM1M2(wh_AesMp16(macKey, WOLFHSM_SHE_KEY_UPDATE_MAC_C), m1, m2),
         junk |-> junk,
         ctr |-> ctr, nib |-> fl[1], wc |-> fl[2], key |-> key,
         macKey |-> macKey, encKey |-> encKey]

\* the chunk sizes SECURE_BOOT_UPDATE is sent: a chunk of 2^32-1 bytes only
\* while fewer than MaxWrapChunks were fed
ChunkSizes(in) ==
    in.blSizes \cup (IF in.wrap /\ sheCmac.fed[1] < MaxWrapChunks
                     THEN {U32Max} ELSE {})

SetUidReqs(in) ==
    {Req(WH_SHE_SET_UID, [uid |-> uid], "none") : uid \in in.uids}
SecureBootInitReqs(in) ==
    {Req(WH_SHE_SECURE_BOOT_INIT, [sz |-> sz], f) :
        sz \in in.blSizes, f \in in.bootFails}
SecureBootUpdateReqs(in) ==
    {Req(WH_SHE_SECURE_BOOT_UPDATE, [sz |-> sz, good |-> good], f) :
        sz \in ChunkSizes(in), good \in in.goods, f \in in.bootFails}
SecureBootFinishReqs(in) ==
    {Req(WH_SHE_SECURE_BOOT_FINISH, NoPacket, f) : f \in in.bootFails}
GetStatusReqs == {Req(WH_SHE_GET_STATUS, NoPacket, "none")}
LoadKeyPackets(in) ==
    {LoadKeyPacket(uid, id, auth, ctr, fl, key, macKey,
                   IF encOk THEN macKey ELSE Raw(MaxKey + 1), junk) :
        uid \in in.lkUids, id \in in.lkIds, auth \in in.lkAuths,
        ctr \in in.lkCtrs, fl \in in.lkFlags, key \in in.lkKeys,
        macKey \in in.lkMacKeys, encOk \in in.lkEncOk, junk \in in.lkJunk}
LoadKeyReqs(in) ==
    {Req(WH_SHE_LOAD_KEY, p, f) : p \in LoadKeyPackets(in), f \in in.keyFails}
LoadPlainKeyReqs(in) ==
    {Req(WH_SHE_LOAD_PLAIN_KEY, [key |-> key], f) :
        key \in in.plainKeys, f \in in.keyFails \ {"crypto1", "crypto2"}}
ExportRamKeyReqs(in) ==
    {Req(WH_SHE_EXPORT_RAM_KEY, NoPacket, f) : f \in in.keyFails \ {"store"}}
InitRndReqs(in) ==
    {Req(WH_SHE_INIT_RND, NoPacket, f) : f \in in.rndFails}
RndReqs(in) ==
    {Req(WH_SHE_RND, NoPacket, f) : f \in in.rndFails \ {"crypto2", "store"}}
ExtendSeedReqs(in) ==
    {Req(WH_SHE_EXTEND_SEED, [entropy |-> e], f) :
        e \in in.entropies, f \in in.rndFails}
EncDecReqs(in) ==
    {Req(action, [keyId |-> keyId, sz |-> sz], f) :
        action \in {WH_SHE_ENC_ECB, WH_SHE_ENC_CBC, WH_SHE_DEC_ECB, WH_SHE_DEC_CBC},
        keyId \in in.encKeyIds, sz \in in.encSzs, f \in in.encFails}
UnknownReqs == {Req(UnknownAction, NoPacket, "none")}

\* every request with non-null arguments
Requests(in) ==
    SetUidReqs(in) \cup SecureBootInitReqs(in) \cup SecureBootUpdateReqs(in)
    \cup SecureBootFinishReqs(in) \cup GetStatusReqs \cup LoadKeyReqs(in)
    \cup LoadPlainKeyReqs(in) \cup ExportRamKeyReqs(in) \cup InitRndReqs(in)
    \cup RndReqs(in) \cup ExtendSeedReqs(in) \cup EncDecReqs(in) \cup UnknownReqs

SetUid(in) ==
    \E r \in SetUidReqs(in) : Request(r) /\ UNCHANGED fixed
SecureBootInit(in) ==
    \E r \in SecureBootInitReqs(in) : Request(r) /\ UNCHANGED fixed
SecureBootUpdate(in) ==
    \E r \in SecureBootUpdateReqs(in) : Request(r) /\ UNCHANGED fixed
SecureBootFinish(in) ==
    \E r \in SecureBootFinishReqs(in) : Request(r) /\ UNCHANGED fixed
GetStatus ==
    \E r \in GetStatusReqs : Request(r) /\ UNCHANGED fixed
LoadKey(in) ==
    \E r \in LoadKeyReqs(in) : Request(r) /\ UNCHANGED fixed
LoadPlainKey(in) ==
    \E r \in LoadPlainKeyReqs(in) : Request(r) /\ UNCHANGED fixed
ExportRamKey(in) ==
    \E r \in ExportRamKeyReqs(in) : Request(r) /\ UNCHANGED fixed
InitRnd(in) ==
    \E r \in InitRndReqs(in) : Request(r) /\ UNCHANGED fixed
Rnd(in) ==
    \E r \in RndReqs(in) : Request(r) /\ UNCHANGED fixed
ExtendSeed(in) ==
    \E r \in ExtendSeedReqs(in) : Request(r) /\ UNCHANGED fixed
EncDec(in) ==
    \E r \in EncDecReqs(in) : Request(r) /\ UNCHANGED fixed
UnknownRequest ==
    \E r \in UnknownReqs : Request(r) /\ UNCHANGED fixed

NextWith(in) ==
    \/ SetUid(in)
    \/ SecureBootInit(in)
    \/ SecureBootUpdate(in)
    \/ SecureBootFinish(in)
    \/ GetStatus
    \/ LoadKey(in)
    \/ LoadPlainKey(in)
    \/ ExportRamKey(in)
    \/ InitRnd(in)
    \/ Rnd(in)
    \/ ExtendSeed(in)
    \/ EncDec(in)
    \/ UnknownRequest
    \/ HandleNullArgs

----------------------------------------------------------------------------
(* Specifications.  Each draws the requests of the part it is about from    *)
(* the full bounded sets and the other requests from one or two values.     *)

\* Spec: the gate and the secure-boot state machine.  Every LOAD_KEY carries
\* an M3 made with a key the server does not hold.
BootInputs ==
    [stores |-> {"noseed", "boot", "nomac"},
     uids |-> {1, MaxUid}, blSizes |-> BlSizes,
     bootFails |-> {"none", "crypto1"}, goods |-> BOOLEAN, wrap |-> TRUE,
     lkUids |-> {MaxUid}, lkIds |-> {WOLFHSM_SHE_KEY_1_ID},
     lkAuths |-> {WOLFHSM_SHE_SECRET_KEY_ID}, lkCtrs |-> {1},
     lkFlags |-> {<<0, 0>>}, lkKeys |-> {Raw(0)}, lkMacKeys |-> {Raw(1)},
     lkEncOk |-> {TRUE}, lkJunk |-> {FALSE}, keyFails |-> {"none"},
     plainKeys |-> {Raw(0)}, rndFails |-> {"none"}, entropies |-> {Raw(1)},
     encKeyIds |-> {WOLFHSM_SHE_RAM_KEY_ID}, encSzs |-> {MaxEncSz},
     encFails |-> {"none"}]

Init == InitWith(BootInputs)
Next == NextWith(BootInputs)
Spec == Init /\ [][Next]_vars

\* SpecKeys: the key slots.  The store holds SECRET_KEY only, so the boot is
\* skipped; LOAD_KEY is drawn over UIDs, slots, authorising keys, counters,
\* the WRITE_PROTECT flag, the key M3 was made with and a failing crypto call.
KeyInputs ==
    [stores |-> {"noseed"},
     uids |-> {MaxUid}, blSizes |-> {U32Zero},
     bootFails |-> {"none"}, goods |-> {TRUE}, wrap |-> FALSE,
     lkUids |-> {0, MaxUid},
     lkIds |-> {WOLFHSM_SHE_KEY_1_ID, WOLFHSM_SHE_RAM_KEY_ID},
     lkAuths |-> {WOLFHSM_SHE_SECRET_KEY_ID, WOLFHSM_SHE_KEY_1_ID},
     lkCtrs |-> Counters, lkFlags |-> {<<0, 0>>, <<8, 0>>},
     lkKeys |-> {Raw(MaxKey)}, lkMacKeys |-> RawKeys,
     lkEncOk |-> {TRUE}, lkJunk |-> {FALSE}, keyFails |-> {"none", "crypto1"},
     plainKeys |-> {Raw(0)}, rndFails |-> {"none"}, entropies |-> {Raw(1)},
     encKeyIds |-> {WOLFHSM_SHE_RAM_KEY_ID}, encSzs |-> {MaxEncSz},
     encFails |-> {"none"}]

InitKeys == InitWith(KeyInputs)
NextKeys == NextWith(KeyInputs)
SpecKeys == InitKeys /\ [][NextKeys]_vars

\* SpecRnd: the random number generator.  INIT_RND, RND and EXTEND_SEED with
\* every failure of the environment, on an empty store, on a store with and
\* a store without PRNG_SEED and on a store provisioned for a secure boot of
\* the reference image.
RndInputs ==
    [KeyInputs EXCEPT !.stores = {"empty", "noseed", "noboot", "full"},
                      !.blSizes = {RefBlSize},
                      !.lkUids = {MaxUid},
                      !.lkIds = {WOLFHSM_SHE_KEY_1_ID},
                      !.lkAuths = {WOLFHSM_SHE_SECRET_KEY_ID},
                      !.lkCtrs = {1},
                      !.lkFlags = {<<0, 0>>},
                      !.lkMacKeys = {Raw(0)},
                      !.keyFails = {"none"},
                      !.rndFails = {"none", "crypto1", "crypto2", "store"},
                      !.entropies = RawKeys]

InitRndSpec == InitWith(RndInputs)
NextRnd == NextWith(RndInputs)
SpecRnd == InitRndSpec /\ [][NextRnd]_vars

\* SpecRam: the RAM key.  LOAD_PLAIN_KEY, LOAD_KEY on RAM_KEY and on KEY_1
\* and EXPORT_RAM_KEY with every failure of the environment, under every
\* server UID; a client may send the M1, M2, M3 of the last export back as
\* a LOAD_KEY.
RamInputs ==
    [KeyInputs EXCEPT !.uids = Uids,
                      !.lkAuths = {WOLFHSM_SHE_SECRET_KEY_ID},
                      !.lkFlags = {<<0, 0>>},
                      !.lkMacKeys = {Raw(0)},
                      !.keyFails = {"none", "crypto1", "crypto2", "store"}]

\* the LOAD_KEY request made of the messages of an export response
LoadExportedReq(m) ==
    Req(WH_SHE_LOAD_KEY,
        [m1 |-> m[1], m2 |-> m[2], m3 |-> m[3], junk |-> FALSE,
         ctr |-> 1, nib |-> 0, wc |-> 0, key |-> m[2][3].key,
         macKey |-> Raw(0), encKey |-> Raw(0)],
        "none")

\* the client sends the last export back
LoadExported ==
    /\ call.action = WH_SHE_EXPORT_RAM_KEY
    /\ call.rc = WH_SHE_ERC_NO_ERROR
    /\ Request(LoadExportedReq(call.out.m))
    /\ UNCHANGED fixed

\* every request of SpecRam a client may send in the current state
RamRequests ==
    Requests(RamInputs)
        \cup (IF call.action = WH_SHE_EXPORT_RAM_KEY
                   /\ call.rc = WH_SHE_ERC_NO_ERROR
               THEN {LoadExportedReq(call.out.m)} ELSE {})

InitRam == InitWith(RamInputs)
NextRam == NextWith(RamInputs) \/ LoadExported
SpecRam == InitRam /\ [][NextRam]_vars

\* the sizes an ENC/DEC request names: small ones, and ones around the
\* largest value of the uint16_t *size
EncSizes == (0..MaxEncSz) \cup {65519, 65520, 65535, 65536, 65536 + MaxEncSz}

\* SpecEnc: the four bulk cipher requests, on a filled slot (RAM_KEY once
\* loaded) and an empty one, over EncSizes.
EncInputs ==
    [KeyInputs EXCEPT !.lkUids = {MaxUid},
                      !.lkIds = {WOLFHSM_SHE_RAM_KEY_ID},
                      !.lkAuths = {WOLFHSM_SHE_SECRET_KEY_ID},
                      !.lkCtrs = {1},
                      !.lkFlags = {<<0, 0>>},
                      !.lkMacKeys = {Raw(0)},
                      !.keyFails = {"none"},
                      !.encKeyIds = {WOLFHSM_SHE_RAM_KEY_ID, WOLFHSM_SHE_KEY_1_ID},
                      !.encSzs = EncSizes,
                      !.encFails = {"none", "crypto1"}]

InitEnc == InitWith(EncInputs)
NextEnc == NextWith(EncInputs)
SpecEnc == InitEnc /\ [][NextEnc]_vars

----------------------------------------------------------------------------
(* The gate and the secure-boot state machine (spec sections 4.1 to 4.5)    *)

SbStates == {WOLFHSM_SHE_SB_INIT, WOLFHSM_SHE_SB_UPDATE, WOLFHSM_SHE_SB_FINISH,
             WOLFHSM_SHE_SB_SUCCESS, WOLFHSM_SHE_SB_FAILURE}

BootRequests == Requests(BootInputs)

\* the dispatcher, applied to request r in state s
Dispatch(s, r) == wh_Server_HandleSheRequest(littleEndian, s, r.action, r.p, r.f)

\* o is a refusal: rc SEQUENCE_ERROR, the call returns 0
Refused(o) == o.rc = WH_SHE_ERC_SEQUENCE_ERROR /\ o.ret = WH_ERROR_OK

\* C1: while the UID is not set, every request other than SET_UID is answered
\* with rc SEQUENCE_ERROR and the call returns 0, whatever sb_state is.
C1_UidGate ==
    ~hsmSheUidSet =>
        \A r \in BootRequests : \A sb \in SbStates :
            r.action # WH_SHE_SET_UID =>
                Refused(Dispatch([Cur EXCEPT !.sb = sb], r))

\* GET_STATUS, which the boot half of the gate lets through, was refused
\* because the UID is not set
C1_Witness ==
    /\ ~hsmSheUidSet
    /\ ~call.null /\ call.action = WH_SHE_GET_STATUS
    /\ call.rc = WH_SHE_ERC_SEQUENCE_ERROR /\ call.ret = WH_ERROR_OK

\* o left the state s alone and ran no handler
NotRun(s, o) == ~o.ran /\ o.s = s

\* C2: while sb_state is not SUCCESS, every request other than SET_UID,
\* SECURE_BOOT_INIT/UPDATE/FINISH and GET_STATUS is answered with rc
\* SEQUENCE_ERROR, the call returns 0 and the handler is not run.
C2_BootGate ==
    hsmSheSbState # WOLFHSM_SHE_SB_SUCCESS =>
        \A r \in BootRequests :
            r.action \notin SecureBootActions \cup {WH_SHE_SET_UID, WH_SHE_GET_STATUS}
                => Refused(Outcome(r)) /\ NotRun(Cur, Outcome(r))

\* with the UID set and the boot not finished, LOAD_PLAIN_KEY was refused
C2_Witness ==
    /\ hsmSheUidSet /\ hsmSheSbState = WOLFHSM_SHE_SB_UPDATE
    /\ ~call.null /\ call.action = WH_SHE_LOAD_PLAIN_KEY /\ ~call.ran
    /\ call.rc = WH_SHE_ERC_SEQUENCE_ERROR

\* C3: once sb_state is SUCCESS, it is SUCCESS after every later call.
C3_SuccessIsKept ==
    [][hsmSheSbState = WOLFHSM_SHE_SB_SUCCESS
          => hsmSheSbState' = WOLFHSM_SHE_SB_SUCCESS]_vars

\* the bits GET_STATUS reports in state s
StatusIn(s) == Dispatch(s, Req(WH_SHE_GET_STATUS, NoPacket, "none")).out.sreg

\* the digest of the received image differs from the BOOT_MAC stored
CmacMismatch ==
    /\ hsmReadKey(Cur, WOLFHSM_SHE_BOOT_MAC).present
    /\ CmacBootFinal(sheCmac) # hsmReadKey(Cur, WOLFHSM_SHE_BOOT_MAC).key

\* o answers a mismatch as the FINISH handler leaves it
FailureLeft(o) ==
    /\ o.rc = WH_SHE_ERC_GENERAL_ERROR
    /\ o.s.sb = WOLFHSM_SHE_SB_FAILURE
    /\ WOLFHSM_SHE_SREG_BOOT_FINISHED \in StatusIn(o.s)
    /\ WOLFHSM_SHE_SREG_BOOT_OK \notin StatusIn(o.s)

\* C4: SECURE_BOOT_FINISH accepted in state FINISH with a digest that differs
\* from BOOT_MAC answers GENERAL_ERROR and leaves sb_state FAILURE, so that the
\* following GET_STATUS reports BOOT_FINISHED set and BOOT_OK clear.
C4_MismatchLeavesFailure ==
    (hsmSheUidSet /\ hsmSheSbState = WOLFHSM_SHE_SB_FINISH /\ CmacMismatch) =>
        \A r \in SecureBootFinishReqs(BootInputs) :
            r.f = "none" => FailureLeft(Outcome(r))

\* C5: when a SECURE_BOOT_* request that passed the gate ends with an rc that
\* is neither NO_ERROR nor NO_SECURE_BOOT, the dispatcher returns with
\* sb_state INIT, bl_size 0, bl_size_received 0 and cmac_key_found false.
C5_FailureResets ==
    (/\ ~call.null /\ call.ran
     /\ call.action \in SecureBootActions
     /\ call.rc \notin {WH_SHE_ERC_NO_ERROR, WH_SHE_ERC_NO_SECURE_BOOT})
    => /\ hsmSheSbState = WOLFHSM_SHE_SB_INIT
       /\ hsmSheBlSize = U32Zero
       /\ hsmSheBlSizeReceived = U32Zero
       /\ hsmSheCmacKeyFound = FALSE

\* SECURE_BOOT_FINISH found no BOOT_MAC to compare with, after an image was fed
C5_Witness ==
    /\ ~call.null /\ call.ran
    /\ call.action = WH_SHE_SECURE_BOOT_FINISH
    /\ call.rc = WH_SHE_ERC_KEY_NOT_AVAILABLE
    /\ hsmSheSbState = WOLFHSM_SHE_SB_INIT /\ hsmSheBlSize = U32Zero

\* in state s every request that is not a SECURE_BOOT_* passes the gate, and
\* GET_STATUS reports BOOT_FINISHED and BOOT_OK without SECURE_BOOT
RunsWithoutSecureBoot(s) ==
    /\ \A r \in BootRequests :
           r.action \notin SecureBootActions => Dispatch(s, r).ran
    /\ WOLFHSM_SHE_SREG_BOOT_FINISHED \in StatusIn(s)
    /\ WOLFHSM_SHE_SREG_BOOT_OK \in StatusIn(s)
    /\ WOLFHSM_SHE_SREG_SECURE_BOOT \notin StatusIn(s)

\* o is the answer "no secure boot"
SecureBootSkipped(o) ==
    /\ o.rc = WH_SHE_ERC_NO_SECURE_BOOT
    /\ o.s.sb = WOLFHSM_SHE_SB_SUCCESS
    /\ o.s.cmacKeyFound = FALSE
    /\ RunsWithoutSecureBoot(o.s)

\* a request that is not a SECURE_BOOT_* keeps the state "no secure boot"
StaysWithoutSecureBoot(o) ==
    o.s.sb = WOLFHSM_SHE_SB_SUCCESS /\ o.s.cmacKeyFound = FALSE

\* C6: SECURE_BOOT_INIT in state INIT, the UID set and no BOOT_MAC_KEY to read,
\* answers NO_SECURE_BOOT and leaves sb_state SUCCESS with cmac_key_found
\* false; from then on, until a SECURE_BOOT_* request, the other requests pass
\* the gate and GET_STATUS reports BOOT_FINISHED = 1, BOOT_OK = 1,
\* SECURE_BOOT = 0.
C6_NoBootMacKey ==
    /\ (/\ hsmSheUidSet /\ hsmSheSbState = WOLFHSM_SHE_SB_INIT
        /\ ~hsmReadKey(Cur, WOLFHSM_SHE_BOOT_MAC_KEY_ID).present)
       => \A r \in SecureBootInitReqs(BootInputs) : SecureBootSkipped(Outcome(r))
    /\ (/\ hsmSheUidSet /\ hsmSheSbState = WOLFHSM_SHE_SB_SUCCESS
        /\ ~hsmSheCmacKeyFound)
       => /\ RunsWithoutSecureBoot(Cur)
          /\ \A r \in BootRequests :
                 r.action \notin SecureBootActions
                     => StaysWithoutSecureBoot(Outcome(r))

\* GET_STATUS ran after the boot was skipped and reported the two bits
C6_Witness ==
    /\ hsmSheSbState = WOLFHSM_SHE_SB_SUCCESS /\ ~hsmSheCmacKeyFound
    /\ ~hsmReadKey(Cur, WOLFHSM_SHE_BOOT_MAC_KEY_ID).present
    /\ ~call.null /\ call.action = WH_SHE_GET_STATUS /\ call.ran
    /\ call.out.sreg = {WOLFHSM_SHE_SREG_BOOT_FINISHED, WOLFHSM_SHE_SREG_BOOT_OK}

\* the state each SECURE_BOOT_* request is accepted in
ExpectedSbState(action) ==
    IF action = WH_SHE_SECURE_BOOT_INIT THEN WOLFHSM_SHE_SB_INIT
    ELSE IF action = WH_SHE_SECURE_BOOT_UPDATE THEN WOLFHSM_SHE_SB_UPDATE
    ELSE WOLFHSM_SHE_SB_FINISH

\* the changes of sb_state claim C7 allows one call to make
SbTransitions ==
    {<<WOLFHSM_SHE_SB_INIT, WOLFHSM_SHE_SB_UPDATE>>,
     <<WOLFHSM_SHE_SB_UPDATE, WOLFHSM_SHE_SB_FINISH>>,
     <<WOLFHSM_SHE_SB_FINISH, WOLFHSM_SHE_SB_SUCCESS>>,
     <<WOLFHSM_SHE_SB_FINISH, WOLFHSM_SHE_SB_FAILURE>>,
     <<WOLFHSM_SHE_SB_INIT, WOLFHSM_SHE_SB_SUCCESS>>}
    \cup {<<sb, WOLFHSM_SHE_SB_INIT>> : sb \in SbStates}

\* request r, answered by o in state s, moved sb_state as C7 says
MovesInSequence(s, r, o) ==
    /\ o.s.sb # s.sb => <<s.sb, o.s.sb>> \in SbTransitions
    /\ (s.sb = WOLFHSM_SHE_SB_INIT /\ o.s.sb = WOLFHSM_SHE_SB_SUCCESS)
           => ~hsmReadKey(s, WOLFHSM_SHE_BOOT_MAC_KEY_ID).present
    /\ (r.action \in SecureBootActions /\ s.sb # ExpectedSbState(r.action))
           => o.rc = WH_SHE_ERC_SEQUENCE_ERROR /\ o.s.sb = WOLFHSM_SHE_SB_INIT

\* C7: one call changes sb_state only along INIT->UPDATE, UPDATE->FINISH,
\* FINISH->SUCCESS, FINISH->FAILURE, INIT->SUCCESS (BOOT_MAC_KEY missing) or
\* back to INIT; a SECURE_BOOT_* request sent when sb_state is not the state it
\* is accepted in is answered SEQUENCE_ERROR and leaves sb_state INIT.
C7_BootSequence ==
    \A r \in BootRequests : MovesInSequence(Cur, r, Outcome(r))

\* SECURE_BOOT_FINISH reached its handler out of sequence
C7_Witness ==
    /\ ~call.null /\ call.ran
    /\ call.action = WH_SHE_SECURE_BOOT_FINISH
    /\ call.rc = WH_SHE_ERC_SEQUENCE_ERROR
    /\ hsmSheSbState = WOLFHSM_SHE_SB_INIT

----------------------------------------------------------------------------
(* Write protection and the key counter (spec sections 4.6 and 4.7)         *)

\* the key, flags and counter slot id holds
SlotNow(id) == hsmReadKey(Cur, id)

WriteProtected(e) == e.present /\ HasFlag(e.flags, WOLFHSM_SHE_FLAG_WRITE_PROTECT)

\* the slot LOAD_KEY request r names, and the slot that authorises it
TargetOf(r) == SlotNow(r.p.m1.id)
AuthOf(r)   == SlotNow(r.p.m1.auth)

\* C8 as stated: every LOAD_KEY that passes the gate and names a slot whose
\* flags have WRITE_PROTECT is answered WRITE_PROTECTED.
C8_AlwaysWriteProtected ==
    \A r \in LoadKeyReqs(KeyInputs) :
        (Outcome(r).ran /\ WriteProtected(TargetOf(r)))
            => Outcome(r).rc = WH_SHE_ERC_WRITE_PROTECTED

\* request r gets as far as the look at the target slot: the authorising key
\* is there, M3 was made with it, and no crypto call fails
ReachesTarget(r) ==
    /\ AuthOf(r).present
    /\ r.p.macKey = AuthOf(r).key
    /\ r.f # "crypto1"

\* o refuses the request and leaves every slot as it is in state s
RefusedUnwritten(s, o) ==
    /\ o.rc \in {WH_SHE_ERC_WRITE_PROTECTED, WH_SHE_ERC_KEY_NOT_AVAILABLE,
                 WH_SHE_ERC_KEY_UPDATE_ERROR, WH_SHE_ERC_GENERAL_ERROR}
    /\ o.s.nvm = s.nvm /\ o.s.cache = s.cache

\* C8, amended: a LOAD_KEY that passes the gate and names a slot whose flags
\* have WRITE_PROTECT never writes the slot; it is answered WRITE_PROTECTED
\* when the authorising key exists, M3 verifies and no crypto call fails, and
\* KEY_NOT_AVAILABLE, KEY_UPDATE_ERROR or GENERAL_ERROR when one of these
\* earlier checks fails.
C8_WriteProtectedAfterM3 ==
    \A r \in LoadKeyReqs(KeyInputs) :
        (Outcome(r).ran /\ WriteProtected(TargetOf(r)))
            => /\ RefusedUnwritten(Cur, Outcome(r))
               /\ Outcome(r).rc = WH_SHE_ERC_WRITE_PROTECTED <=> ReachesTarget(r)

\* a LOAD_KEY was answered WRITE_PROTECTED
C8_Witness ==
    /\ ~call.null /\ call.ran
    /\ call.action = WH_SHE_LOAD_KEY
    /\ call.rc = WH_SHE_ERC_WRITE_PROTECTED
    /\ \E id \in Slots : WriteProtected(SlotNow(id))

\* C9: once a slot has WRITE_PROTECT, no call changes its key bytes, flags or
\* counter.
C9_ProtectedSlotIsKept ==
    [][\A id \in Slots :
           WriteProtected(SlotNow(id)) => SlotNow(id)' = SlotNow(id)]_vars

\* request r2 passes every check LOAD_KEY makes before it compares counters
ReachesCounter(s, r2) ==
    /\ hsmReadKey(s, r2.p.m1.auth).present
    /\ r2.p.macKey = hsmReadKey(s, r2.p.m1.auth).key
    /\ r2.f = "none"
    /\ ~WriteProtected(hsmReadKey(s, r2.p.m1.id))
    /\ r2.p.m1.uid = s.uid

\* after request r1 was answered o1: every LOAD_KEY on the same slot whose
\* counter is not above the one r1 stored is answered KEY_UPDATE_ERROR
SecondRejected(r1, o1) ==
    \A r2 \in LoadKeyReqs(KeyInputs) :
        (/\ r2.p.m1.id = r1.p.m1.id
         /\ r2.p.ctr <= r1.p.ctr
         /\ ReachesCounter(o1.s, r2))
        => Dispatch(o1.s, r2).rc = WH_SHE_ERC_KEY_UPDATE_ERROR

\* C10: of two successive LOAD_KEY on one slot that pass the gate, the first
\* answered NO_ERROR, the second is answered KEY_UPDATE_ERROR when its counter
\* is not above the counter the first stored.
C10_CounterMustGrow ==
    \A r1 \in LoadKeyReqs(KeyInputs) :
        (Outcome(r1).ran /\ Outcome(r1).rc = WH_SHE_ERC_NO_ERROR)
            => SecondRejected(r1, Outcome(r1))

----------------------------------------------------------------------------
(* The 28-bit counter and the byte order of the host (spec section 4.7)     *)

\* counters whose big-endian word has more than one non-zero byte, next to
\* the smallest one
WideCounters == {1, 16 * 16 - 1, 16 * 16}

\* SpecCounters: LOAD_KEY on KEY_1, authorised by SECRET_KEY, with a valid M3,
\* no flag and counters up to 9 bits.
CounterInputs ==
    [KeyInputs EXCEPT !.lkUids = {MaxUid},
                      !.lkIds = {WOLFHSM_SHE_KEY_1_ID},
                      !.lkAuths = {WOLFHSM_SHE_SECRET_KEY_ID},
                      !.lkCtrs = WideCounters,
                      !.lkFlags = {<<0, 0>>},
                      !.lkKeys = RawKeys,
                      !.lkMacKeys = {Raw(0)},
                      !.keyFails = {"none"}]

InitCounters == InitWith(CounterInputs)
NextCounters == NextWith(CounterInputs)
SpecCounters == InitCounters /\ [][NextCounters]_vars

\* after request r1 was answered o1: a LOAD_KEY on the same slot is accepted
\* only with a counter above the one r1 carried
AcceptedOnlyAbove(r1, o1) ==
    \A r2 \in LoadKeyReqs(CounterInputs) :
        (/\ r2.p.m1.id = r1.p.m1.id
         /\ Dispatch(o1.s, r2).rc = WH_SHE_ERC_NO_ERROR)
        => r2.p.ctr > r1.p.ctr

\* C11: the counter of a slot, read as the top 28 bits of the big-endian first
\* word of M2, strictly increases with every accepted LOAD_KEY on an existing
\* slot, for every 28-bit counter and whatever the byte order of the host.
C11_CounterStrictlyIncreases ==
    \A r1 \in LoadKeyReqs(CounterInputs) :
        (Outcome(r1).ran /\ Outcome(r1).rc = WH_SHE_ERC_NO_ERROR)
            => AcceptedOnlyAbove(r1, Outcome(r1))

----------------------------------------------------------------------------
(* The UID of M1 and the wildcard (spec section 4.7, step 7)                *)

\* SpecWildcard: LOAD_KEY on KEY_1, authorised by SECRET_KEY, with a valid M3,
\* over every UID, the WILDCARD flag and both values of the bit read from the
\* metadata of a slot that was not found.
WildcardInputs ==
    [KeyInputs EXCEPT !.lkUids = Uids,
                      !.lkIds = {WOLFHSM_SHE_KEY_1_ID},
                      !.lkAuths = {WOLFHSM_SHE_SECRET_KEY_ID},
                      !.lkFlags = {<<0, 0>>, <<0, 1>>},
                      !.lkKeys = RawKeys,
                      !.lkMacKeys = {Raw(0)},
                      !.lkJunk = BOOLEAN,
                      !.keyFails = {"none"}]

InitWildcard == InitWith(WildcardInputs)
NextWildcard == NextWith(WildcardInputs)
SpecWildcard == InitWildcard /\ [][NextWildcard]_vars

\* the 15 UID bytes of M1 are all zero
UidIsZero(m1) == m1.uid = 0

\* request r is authenticated and names a UID that is not the server's
ForeignUid(r) ==
    /\ ReachesTarget(r) /\ r.f = "none"
    /\ ~WriteProtected(TargetOf(r))
    /\ r.p.m1.uid # sheUid

\* o refuses the request with KEY_UPDATE_ERROR and writes no key in state s
NoKeyWritten(s, o) ==
    /\ o.rc = WH_SHE_ERC_KEY_UPDATE_ERROR
    /\ o.s.nvm = s.nvm /\ o.s.cache = s.cache

\* C12: an authenticated LOAD_KEY whose UID differs from the server UID is
\* accepted only if all 15 UID bytes are zero and the existing target slot has
\* the WILDCARD flag; in every other case it is answered KEY_UPDATE_ERROR and
\* no key is written.
C12_WildcardOnly ==
    \A r \in LoadKeyReqs(WildcardInputs) :
        (Outcome(r).ran /\ ForeignUid(r))
            => \/ /\ UidIsZero(r.p.m1)
                  /\ TargetOf(r).present
                  /\ HasFlag(TargetOf(r).flags, WOLFHSM_SHE_FLAG_WILDCARD)
               \/ NoKeyWritten(Cur, Outcome(r))

----------------------------------------------------------------------------
(* The value returned and the rc written (spec section 4.2)                 *)

\* the thirteen SHE codes a response may carry
SheCodes ==
    {WH_SHE_ERC_NO_ERROR, WH_SHE_ERC_SEQUENCE_ERROR,
     WH_SHE_ERC_KEY_NOT_AVAILABLE, WH_SHE_ERC_KEY_INVALID,
     WH_SHE_ERC_KEY_EMPTY, WH_SHE_ERC_NO_SECURE_BOOT,
     WH_SHE_ERC_WRITE_PROTECTED, WH_SHE_ERC_KEY_UPDATE_ERROR,
     WH_SHE_ERC_RNG_SEED, WH_SHE_ERC_NO_DEBUGGING, WH_SHE_ERC_BUSY,
     WH_SHE_ERC_MEMORY_FAILURE, WH_SHE_ERC_GENERAL_ERROR}

\* the handler, if it runs for request r in the current state, returns a value
\* that is not a SHE code
HandlerResultIsForeign(r) ==
    /\ ~GateRejects(Cur, r.action)
    /\ Handler(littleEndian, Cur, r.action, r.p, r.f).ret \notin SheCodes

\* C13: the call returns BadArgs only when an argument is null; every other
\* call returns 0 and writes one of the thirteen SHE codes into rc, and a
\* handler result that is not a SHE code, the result for an unknown action
\* included, is written as GENERAL_ERROR.
C13_RcIsSheCode ==
    /\ call.ret = WH_ERROR_BADARGS => call.null
    /\ ~call.null => (call.ret = WH_ERROR_OK /\ call.rc \in SheCodes)
    /\ \A r \in Requests(BootInputs) :
           /\ Outcome(r).ret = WH_ERROR_OK
           /\ Outcome(r).rc \in SheCodes
           /\ HandlerResultIsForeign(r)
                  => Outcome(r).rc = WH_SHE_ERC_GENERAL_ERROR

\* an unknown action code reached the switch and was answered GENERAL_ERROR
C13_Witness ==
    /\ call.action = UnknownAction /\ ~call.null /\ call.ran
    /\ call.ret = WH_ERROR_OK /\ call.rc = WH_SHE_ERC_GENERAL_ERROR

----------------------------------------------------------------------------
(* SET_UID (spec section 4.3)                                               *)

\* o leaves the UID, uid_set and the secure-boot state of s as they are
KeepsUidAndBoot(s, o) ==
    /\ o.s.uid = s.uid /\ o.s.uidSet = s.uidSet
    /\ o.s.sb = s.sb /\ o.s.blSize = s.blSize /\ o.s.blRecv = s.blRecv
    /\ o.s.cmacKeyFound = s.cmacKeyFound

\* what SET_UID request r does in state s, o being its outcome
SetUidOnce(s, r, o) ==
    IF s.uidSet
    THEN o.rc = WH_SHE_ERC_SEQUENCE_ERROR /\ KeepsUidAndBoot(s, o)
    ELSE o.rc = WH_SHE_ERC_NO_ERROR /\ o.s.uid = r.p.uid /\ o.s.uidSet

\* o leaves a UID that is set as it is
KeepsSetUid(s, o) == s.uidSet => (o.s.uidSet /\ o.s.uid = s.uid)

\* C14: the first SET_UID stores the UID and sets uid_set; every later SET_UID
\* is answered SEQUENCE_ERROR and leaves the UID, uid_set, sb_state, bl_size,
\* bl_size_received and cmac_key_found unchanged; no request changes a UID
\* that is set.
C14_UidSetOnce ==
    /\ \A r \in SetUidReqs(BootInputs) : SetUidOnce(Cur, r, Outcome(r))
    /\ \A r \in Requests(BootInputs) : KeepsSetUid(Cur, Outcome(r))

\* a second SET_UID was refused in the middle of a secure boot, which goes on
C14_Witness ==
    /\ call.action = WH_SHE_SET_UID /\ call.rc = WH_SHE_ERC_SEQUENCE_ERROR
    /\ hsmSheUidSet /\ hsmSheSbState = WOLFHSM_SHE_SB_UPDATE
    /\ hsmSheBlSize # U32Zero /\ hsmSheCmacKeyFound

----------------------------------------------------------------------------
(* GET_STATUS (spec section 4.6)                                            *)

\* the four bits of sreg the engine reports
SregBits ==
    {WOLFHSM_SHE_SREG_SECURE_BOOT, WOLFHSM_SHE_SREG_BOOT_FINISHED,
     WOLFHSM_SHE_SREG_BOOT_OK, WOLFHSM_SHE_SREG_RND_INIT}

\* sreg reports state s
SregReports(s, sreg) ==
    /\ (WOLFHSM_SHE_SREG_SECURE_BOOT \in sreg) <=> s.cmacKeyFound
    /\ (WOLFHSM_SHE_SREG_BOOT_FINISHED \in sreg)
           <=> s.sb \in {WOLFHSM_SHE_SB_SUCCESS, WOLFHSM_SHE_SB_FAILURE}
    /\ (WOLFHSM_SHE_SREG_BOOT_OK \in sreg) <=> s.sb = WOLFHSM_SHE_SB_SUCCESS
    /\ (WOLFHSM_SHE_SREG_RND_INIT \in sreg) <=> s.rndInited
    /\ sreg \subseteq SregBits

\* outcome o of GET_STATUS in state s: answered, reporting s, s left as it is
StatusOf(s, o) ==
    /\ o.rc = WH_SHE_ERC_NO_ERROR
    /\ SregReports(s, o.out.sreg)
    /\ o.s = s

\* C15: wherever GET_STATUS passes the gate, sreg has SECURE_BOOT iff
\* cmac_key_found, BOOT_FINISHED iff sb_state is SUCCESS or FAILURE, BOOT_OK
\* iff sb_state is SUCCESS, RND_INIT iff rnd_inited and no other bit, and the
\* state of the engine is unchanged.
C15_StatusRegister ==
    \A r \in GetStatusReqs : Outcome(r).ran => StatusOf(Cur, Outcome(r))

\* GET_STATUS answered with SECURE_BOOT and RND_INIT and without BOOT_OK
C15_Witness ==
    /\ call.action = WH_SHE_GET_STATUS /\ call.ran
    /\ call.out.sreg = {WOLFHSM_SHE_SREG_SECURE_BOOT, WOLFHSM_SHE_SREG_RND_INIT}
    /\ hsmSheSbState = WOLFHSM_SHE_SB_UPDATE

----------------------------------------------------------------------------
(* The RAM key (spec sections 4.8 and 4.9)                                  *)

\* request r is a LOAD_PLAIN_KEY, or a LOAD_KEY whose target slot is RAM_KEY
LoadsRamKey(r) ==
    \/ r.action = WH_SHE_LOAD_PLAIN_KEY
    \/ r.action = WH_SHE_LOAD_KEY /\ hsmShePopId(r.p.m1) = WOLFHSM_SHE_RAM_KEY_ID

\* after outcome o of request r in state s, ram_key_plain is true exactly if
\* it was true before or r is a load of the RAM key that succeeded
RamKeyPlainAfter(s, r, o) ==
    o.s.ramKeyPlain <=>
        (s.ramKeyPlain \/ (LoadsRamKey(r) /\ o.rc = WH_SHE_ERC_NO_ERROR))

\* outcome o of an EXPORT_RAM_KEY in state s is KEY_INVALID exactly without
\* ram_key_plain
InvalidWithoutPlain(s, o) ==
    (o.rc = WH_SHE_ERC_KEY_INVALID) <=> ~s.ramKeyPlain

ExportReq == Req(WH_SHE_EXPORT_RAM_KEY, NoPacket, "none")

\* outcome o2 of the LOAD_KEY: accepted, the RAM slot holds the bytes it held
\* in state s
Reloaded(s, o2) ==
    /\ o2.rc = WH_SHE_ERC_NO_ERROR
    /\ hsmReadKey(o2.s, WOLFHSM_SHE_RAM_KEY_ID).present
    /\ hsmReadKey(o2.s, WOLFHSM_SHE_RAM_KEY_ID).key
           = hsmReadKey(s, WOLFHSM_SHE_RAM_KEY_ID).key

\* outcome o1 of the export in state s: answered, and its M1, M2, M3 sent
\* back as a LOAD_KEY are accepted
RoundTrip(s, o1) ==
    /\ o1.rc = WH_SHE_ERC_NO_ERROR
    /\ Reloaded(s, Dispatch(o1.s, LoadExportedReq(o1.out.m)))

\* ram_key_plain is true, SECRET_KEY exists and EXPORT_RAM_KEY passes the gate
CanExport ==
    /\ hsmSheRamKeyPlain
    /\ hsmReadKey(Cur, WOLFHSM_SHE_SECRET_KEY_ID).present
    /\ ~GateRejects(Cur, WH_SHE_EXPORT_RAM_KEY)

\* C17: wherever ram_key_plain is true and SECRET_KEY exists, the M1, M2, M3
\* of EXPORT_RAM_KEY sent back as a LOAD_KEY are accepted and the RAM slot
\* holds the 16 bytes it held before, however the RAM key was loaded, for
\* every server UID and when the export/load pair is repeated.
C17_ExportRoundTrip == CanExport => RoundTrip(Cur, Outcome(ExportReq))

\* outcome o of request r in state s: a load of the RAM key leaves NVM as it
\* is, an accepted LOAD_KEY on another slot puts the key into NVM and leaves
\* the cache as it is, and no request changes what NVM holds for RAM_KEY
WritesByTarget(s, r, o) ==
    /\ LoadsRamKey(r) => o.s.nvm = s.nvm
    /\ (r.action = WH_SHE_LOAD_KEY /\ ~LoadsRamKey(r)
            /\ o.rc = WH_SHE_ERC_NO_ERROR)
           => /\ o.s.nvm[hsmShePopId(r.p.m1)].present
              /\ o.s.nvm[hsmShePopId(r.p.m1)].key = r.p.key
              /\ o.s.cache = s.cache
    /\ o.s.nvm[WOLFHSM_SHE_RAM_KEY_ID] = s.nvm[WOLFHSM_SHE_RAM_KEY_ID]

\* C18: no request writes the RAM_KEY slot to NVM: LOAD_PLAIN_KEY and LOAD_KEY
\* on RAM_KEY write the cache only, LOAD_KEY on another slot writes NVM, and
\* NVM holds for RAM_KEY in every reachable state what it held at startup.
C18_RamKeyNotInNvm ==
    /\ nvm[WOLFHSM_SHE_RAM_KEY_ID] = NoKey
    /\ \A r \in RamRequests : WritesByTarget(Cur, r, Outcome(r))

\* the RAM key was loaded by LOAD_KEY and KEY_1 was loaded too
C18_Witness ==
    /\ call.action = WH_SHE_LOAD_KEY /\ call.rc = WH_SHE_ERC_NO_ERROR
    /\ hsmSheRamKeyPlain
    /\ cache[WOLFHSM_SHE_RAM_KEY_ID].present
    /\ cache[WOLFHSM_SHE_RAM_KEY_ID].key = Raw(MaxKey)
    /\ nvm[WOLFHSM_SHE_KEY_1_ID].present

----------------------------------------------------------------------------
(* The random number generator (spec sections 4.10 to 4.12)                 *)

\* the PRNG_SEED NVM holds in state s
PersistedSeed(s) == s.nvm[WOLFHSM_SHE_PRNG_SEED_ID]

\* outcome o in state s: RNG_SEED, PRNG_STATE and the persisted seed as before
RefusedUnseeded(s, o) ==
    /\ o.rc = WH_SHE_ERC_RNG_SEED
    /\ o.s.prngState = s.prngState
    /\ PersistedSeed(o.s) = PersistedSeed(s)
    /\ ~o.s.rndInited

\* outcome o of an INIT_RND: rnd_inited is set exactly if it is answered
\* NO_ERROR
InitedIfAnswered(o) == o.s.rndInited <=> (o.rc = WH_SHE_ERC_NO_ERROR)

\* C19: with the UID set and the secure boot succeeded, while no INIT_RND has
\* succeeded every RND and every EXTEND_SEED is answered RNG_SEED and changes
\* neither PRNG_STATE nor the persisted PRNG_SEED, and an INIT_RND that fails
\* leaves rnd_inited false.
C19_NoRndBeforeInit ==
    ~hsmSheRndInited =>
        /\ \A r \in RndReqs(RndInputs) \cup ExtendSeedReqs(RndInputs) :
               Outcome(r).ran => RefusedUnseeded(Cur, Outcome(r))
        /\ \A r \in InitRndReqs(RndInputs) :
               Outcome(r).ran => InitedIfAnswered(Outcome(r))

\* EXTEND_SEED refused after an INIT_RND that failed once the seed was written
C19_Witness ==
    /\ call.action = WH_SHE_EXTEND_SEED /\ call.ran
    /\ call.rc = WH_SHE_ERC_RNG_SEED
    /\ ~hsmSheRndInited
    /\ nvm[WOLFHSM_SHE_PRNG_SEED_ID].present
    /\ nvm[WOLFHSM_SHE_PRNG_SEED_ID].key # Raw(0)

\* outcome o of an INIT_RND in state s: SEQUENCE_ERROR, the persisted seed,
\* PRNG_STATE and PRNG_KEY as before
RefusedInited(s, o) ==
    /\ o.rc = WH_SHE_ERC_SEQUENCE_ERROR
    /\ PersistedSeed(o.s) = PersistedSeed(s)
    /\ o.s.prngState = s.prngState
    /\ o.s.prngKey = s.prngKey

\* once rnd_inited is true every INIT_RND is refused and changes nothing, and
\* no request sets rnd_inited back to false
InitRndOnlyOnce ==
    hsmSheRndInited =>
        /\ \A r \in InitRndReqs(RndInputs) :
               Outcome(r).ran => RefusedInited(Cur, Outcome(r))
        /\ \A r \in Requests(RndInputs) : Outcome(r).s.rndInited

\* outcome o changes the PRNG_SEED that NVM holds in state s
AdvancesSeed(s, o) == PersistedSeed(o.s) # PersistedSeed(s)

\* the INIT_RND with outcome o1 in state s and the INIT_RND after it do not
\* both advance the persisted seed
NotAdvancedTwice(s, o1) ==
    \A r2 \in InitRndReqs(RndInputs) :
        ~(AdvancesSeed(s, o1) /\ AdvancesSeed(o1.s, Dispatch(o1.s, r2)))

\* C20: after one INIT_RND has succeeded every later INIT_RND is answered
\* SEQUENCE_ERROR and changes neither the persisted PRNG_SEED nor PRNG_STATE
\* nor PRNG_KEY, rnd_inited never returns to false, and so INIT_RND advances
\* the persisted seed at most once.
C20_SeedAdvancedOnce ==
    /\ InitRndOnlyOnce
    /\ \A r1 \in InitRndReqs(RndInputs) : NotAdvancedTwice(Cur, Outcome(r1))

----------------------------------------------------------------------------
(* ENC_ECB, ENC_CBC, DEC_ECB, DEC_CBC (spec section 4.10)                   *)

\* outcome o of the bulk cipher request r in state s: with the key, sz and the
\* length of the response follow the requested size truncated to whole
\* blocks; without it, KEY_NOT_AVAILABLE and no output
TruncatedOutput(s, r, o) ==
    IF hsmReadKey(s, r.p.keyId).present
    THEN (o.rc = WH_SHE_ERC_NO_ERROR)
             => /\ o.out.sz = r.p.sz - (r.p.sz % 16)
                /\ o.out.size = WOLFHSM_PACKET_STUB_SIZE + SheEncResSize
                                    + (r.p.sz - (r.p.sz % 16))
    ELSE o.rc = WH_SHE_ERC_KEY_NOT_AVAILABLE /\ o.out = NoOut

\* C21: for ENC_ECB, ENC_CBC, DEC_ECB and DEC_CBC that pass the gate and every
\* requested size sz: if the key exists the sz field of the response is
\* sz - (sz mod 16) and the response length is stub + response struct + that
\* value; if the key does not exist the answer is KEY_NOT_AVAILABLE and no
\* output is produced.
C21_OutputLength ==
    \A r \in EncDecReqs(EncInputs) :
        Outcome(r).ran => TruncatedOutput(Cur, r, Outcome(r))


----------------------------------------------------------------------------
(* The transport with each call one step: the client calls SendRequest and  *)
(* RecvResponse, the server RecvRequest and SendResponse, in any order.     *)

\* lengths the payload region holds, and the caller's buffer of len bytes or NULL
Lens == 0..PayloadSize
DataOf(len) == {Ptr(d) : d \in [1..len -> Bytes]} \cup {NULL}
\* the caller's receive buffer before the call holds a byte no payload holds
Unwritten == [i \in 1..PayloadSize |-> 2]
OutBufs == {Ptr(Unwritten), NULL}
\* the caller's out_len before the call holds a length no request has
OutLens == {Ptr(PayloadSize + 1), NULL_LEN}

\* the call returns: shared memory, the context and the record of the call
TReturn(who, op, o) ==
    /\ req' = o.m.req
    /\ req_data' = o.m.req_data
    /\ resp' = o.m.resp
    /\ resp_data' = o.m.resp_data
    /\ initialized' = [initialized EXCEPT ![who] = o.initialized]
    /\ tcall' = TCall(who, op, o.rc)
    /\ UNCHANGED <<proc, she>>

\* the 16-bit counter is followed from 0 up to MaxNotify and across its wrap
InWindow == req.notify < MaxNotify \/ req.notify = 65535

SendRequest ==
    \E len \in Lens : \E data \in DataOf(len) :
        /\ InWindow
        /\ TReturn("client", "SendRequest",
                   wh_TransportMem_SendRequest(Shm, initialized.client, len, data))

RecvRequest ==
    \E out_len \in OutLens : \E data \in OutBufs :
        /\ TReturn("server", "RecvRequest",
                   wh_TransportMem_RecvRequest(Shm, initialized.server, out_len, data))

SendResponse ==
    \E len \in Lens : \E data \in DataOf(len) :
        /\ TReturn("server", "SendResponse",
                   wh_TransportMem_SendResponse(Shm, initialized.server, len, data))

RecvResponse ==
    \E out_len \in OutLens : \E data \in OutBufs :
        /\ TReturn("client", "RecvResponse",
                   wh_TransportMem_RecvResponse(Shm, initialized.client, out_len, data))

\* the SHE server is idle while the transport runs
SheIdle == InitShe([stores |-> {"empty"}]) /\ littleEndian

\* both contexts initialised over zeroed buffers, or the quiescent state 65535
\* handshakes of empty messages later
InitTransport ==
    /\ SheIdle
    /\ \E n \in {0, 65535} : req = Csr(n, 0) /\ resp = Csr(n, 0)
    /\ req_data = ZeroPayload
    /\ resp_data = ZeroPayload
    /\ initialized = [client |-> TRUE, server |-> TRUE]
    /\ tcall = TCall("server", "Init", WH_ERROR_OK)
    /\ proc = Idle

NextTransport == SendRequest \/ RecvRequest \/ SendResponse \/ RecvResponse
SpecTransport == InitTransport /\ [][NextTransport]_vars

----------------------------------------------------------------------------
(* Claims about the transport calls *)

\* what SendRequest(len, data) made of the shared memory m
Published(m, len, data, o) ==
    /\ o.rc = WH_ERROR_OK
    /\ o.m.req.len = len
    /\ o.m.req.notify = (m.req.notify + 1) % 65536
    /\ o.m.resp = m.resp
    /\ o.m.resp_data = m.resp_data
    /\ \A i \in 1..PayloadSize :
           o.m.req_data[i] = IF ~data.null /\ i <= len THEN data.v[i] ELSE m.req_data[i]

SendsRequest(m, len, data, o) ==
    /\ (o.rc = WH_ERROR_NOTREADY) <=> (m.req.notify # m.resp.notify)
    /\ (o.rc # WH_ERROR_NOTREADY) => Published(m, len, data, o)

\* C22: on an initialised transport SendRequest returns NotReady exactly when
\* req.notify differs from resp.notify; otherwise it copies the data, sets
\* req.len to len, adds one to req.notify modulo 2^16 and leaves the response
\* CSR and payload as they were.
C22_SendRequest ==
    initialized.client =>
        \A len \in Lens : \A data \in DataOf(len) :
            SendsRequest(Shm, len, data,
                wh_TransportMem_SendRequest(Shm, initialized.client, len, data))

\* a request of PayloadSize bytes was published and took the counter from 65535 to 0
C22_Witness ==
    /\ tcall = TCall("client", "SendRequest", WH_ERROR_OK)
    /\ req = Csr(0, PayloadSize)
    /\ resp.notify = 65535
    /\ req_data # ZeroPayload

\* every RecvResponse the client could make now returns NotReady
RecvResponseNotReady ==
    \A out_len \in OutLens : \A data \in OutBufs :
        wh_TransportMem_RecvResponse(Shm, initialized.client, out_len, data).rc
            = WH_ERROR_NOTREADY

\* C23: on zeroed buffers, before any request, RecvResponse returns NotReady;
\* and once a RecvResponse has delivered the response, every further
\* RecvResponse returns NotReady until the client has sent its next request.
C23_DeliveredOnce ==
    initialized.client =>
        /\ (Shm = ZeroMem) => RecvResponseNotReady
        /\ (tcall = TCall("client", "RecvResponse", WH_ERROR_OK)) => RecvResponseNotReady

\* a call that returned NotReady changed neither the shared memory nor what
\* the caller passed
Untouched(m, data, out_len, o) ==
    (o.rc = WH_ERROR_NOTREADY) =>
        /\ o.m = m
        /\ o.data = data
        /\ o.out_len = out_len

\* C24: every SendRequest, RecvRequest, SendResponse and RecvResponse that
\* returns NotReady leaves both CSRs, both payloads, the caller's buffer and
\* the caller's out_len as they were.
C24_NotReadyIdempotent ==
    /\ \A len \in Lens : \A data \in DataOf(len) :
        /\ Untouched(Shm, data, NULL_LEN,
               wh_TransportMem_SendRequest(Shm, initialized.client, len, data))
        /\ Untouched(Shm, data, NULL_LEN,
               wh_TransportMem_SendResponse(Shm, initialized.server, len, data))
    /\ \A out_len \in OutLens : \A data \in OutBufs :
        /\ Untouched(Shm, data, out_len,
               wh_TransportMem_RecvRequest(Shm, initialized.server, out_len, data))
        /\ Untouched(Shm, data, out_len,
               wh_TransportMem_RecvResponse(Shm, initialized.client, out_len, data))

\* a RecvRequest found no request while both buffers hold earlier messages
C24_Witness ==
    /\ tcall = TCall("server", "RecvRequest", WH_ERROR_NOTREADY)
    /\ req.len = PayloadSize
    /\ resp.len = PayloadSize
    /\ req_data # ZeroPayload
    /\ resp_data # ZeroPayload

\* the receiver got the length and the bytes that were sent
Delivered(len, data, r) ==
    (r.rc = WH_ERROR_OK) =>
        /\ r.out_len.v = len
        /\ \A i \in 1..len : r.data.v[i] = data.v[i]

RequestRoundTrip(m, len, data, s) ==
    (s.rc = WH_ERROR_OK) =>
        Delivered(len, data,
            wh_TransportMem_RecvRequest(s.m, initialized.server,
                                        Ptr(PayloadSize + 1), Ptr(Unwritten)))

ResponseRoundTrip(m, len, data, s) ==
    (s.rc = WH_ERROR_OK) =>
        Delivered(len, data,
            wh_TransportMem_RecvResponse(s.m, initialized.client,
                                         Ptr(PayloadSize + 1), Ptr(Unwritten)))

\* C25: in every reachable state of the transport, for every len and data, a
\* successful SendRequest followed by a successful RecvRequest gives out_len =
\* len and the bytes sent, and so does a successful SendResponse followed by a
\* successful RecvResponse.
C25_RoundTrip ==
    \A len \in Lens : \A d \in [1..len -> Bytes] :
        /\ RequestRoundTrip(Shm, len, Ptr(d),
               wh_TransportMem_SendRequest(Shm, initialized.client, len, Ptr(d)))
        /\ ResponseRoundTrip(Shm, len, Ptr(d),
               wh_TransportMem_SendResponse(Shm, initialized.server, len, Ptr(d)))

\* the client took a response of PayloadSize bytes to a request of PayloadSize bytes
C25_Witness ==
    /\ tcall = TCall("client", "RecvResponse", WH_ERROR_OK)
    /\ req = Csr(1, PayloadSize)
    /\ resp = Csr(1, PayloadSize)
    /\ req_data # ZeroPayload
    /\ resp_data # ZeroPayload
    /\ resp_data # req_data

----------------------------------------------------------------------------
(* The transport with its four callbacks: each process initialises and      *)
(* cleans up its own context at any time, between calls of Send and Recv.   *)

InitClient ==
    \E cfOk \in BOOLEAN :
        /\ TReturn("client", "Init", ClientInit(Shm, initialized.client, cfOk))

InitServer ==
    \E cfOk \in BOOLEAN :
        /\ TReturn("server", "Init", ServerInit(Shm, initialized.server, cfOk))

CleanupClient ==
    /\ initialized.client
    /\ TReturn("client", "Cleanup", wh_TransportMem_Cleanup(Shm, initialized.client))

CleanupServer ==
    /\ initialized.server
    /\ TReturn("server", "Cleanup", wh_TransportMem_Cleanup(Shm, initialized.server))

InitCallbacks == SheIdle /\ TransportIdle
NextCallbacks ==
    \/ InitClient \/ InitServer \/ CleanupClient \/ CleanupServer
    \/ SendRequest \/ RecvRequest \/ SendResponse \/ RecvResponse
SpecCallbacks == InitCallbacks /\ [][NextCallbacks]_vars

\* C26: the Init callback of the client zeroes both shared buffers and the
\* Init callback of the server leaves them as they are, so a server Init
\* while a request or a response is in flight keeps the handshake counters.
C26_InitCallbacks ==
    /\ ClientInit(Shm, initialized.client, TRUE).m = ZeroMem
    /\ ServerInit(Shm, initialized.server, TRUE).m = Shm

\* the server initialised its context while a request was outstanding
C26_Witness ==
    /\ tcall = TCall("server", "Init", WH_ERROR_OK)
    /\ req = Csr(1, PayloadSize)
    /\ resp.notify = 0
    /\ req_data # ZeroPayload

\* C26 as stated: the server's Init zeroes both buffers and the client's Init
\* leaves them as they are.
C26_ServerInitClears ==
    /\ ServerInit(Shm, initialized.server, TRUE).m = ZeroMem
    /\ ClientInit(Shm, initialized.client, TRUE).m = Shm

\* a request is outstanding: published and not yet answered
Outstanding == req.notify # resp.notify

\* no SendRequest the client could make now publishes anything
NothingPublished ==
    \A len \in Lens : \A data \in DataOf(len) :
        LET o == wh_TransportMem_SendRequest(Shm, initialized.client, len, data)
        IN  o.m.req = req /\ o.m.req_data = req_data

\* C30: whatever the order of the four calls, req.notify is resp.notify or
\* resp.notify + 1 modulo 2^16, also when the counter wraps from 65535 to 0,
\* and no second request is published while one is outstanding.
C30_Handshake ==
    /\ req.notify = resp.notify \/ req.notify = (resp.notify + 1) % 65536
    /\ Outstanding => NothingPublished

\* a second SendRequest was refused while the request that wrapped the counter
\* was outstanding
C30_Witness ==
    /\ tcall = TCall("client", "SendRequest", WH_ERROR_NOTREADY)
    /\ req.notify = 0
    /\ resp.notify = 65535

----------------------------------------------------------------------------
(* The transport with two processes and each access to the shared memory a  *)
(* step of its own: a load of a CSR, a store of a CSR, the copy of one      *)
(* payload byte.  The client calls SendRequest and then RecvResponse until  *)
(* it has the response; the server calls RecvRequest until it has a request *)
(* and then SendResponse.  proc holds, per process, the statement it is at  *)
(* (pc), the CSRs it loaded (req, resp), the arguments of its Send (len,    *)
(* data), the bytes copied so far (i) and what its Recv returned (out,      *)
(* out_len).                                                                *)

Local(pc) == [pc |-> pc, req |-> ZeroCsr, resp |-> ZeroCsr, len |-> 0, data |-> <<>>,
              i |-> 0, out |-> Unwritten, out_len |-> PayloadSize + 1]

\* the messages the processes send: len bytes of one value
Msgs == {[len |-> l, data |-> [i \in 1..l |-> b]] : l \in Lens, b \in Bytes}

\* variant: a request is taken to be pending whatever the counters say
RequestPendingAlways(rq, rs) == TRUE

\* variant: no request is ever taken to be pending
RequestPendingNever(rq, rs) == FALSE

\* RecvRequest goes on to copy when the counters it loaded differ
RequestPending(rq, rs) == rq.notify # rs.notify

Step(who, l) ==
    /\ proc' = [proc EXCEPT ![who] = l]
    /\ UNCHANGED <<initialized, tcall, she>>

\* the client enters wh_TransportMem_SendRequest(len, data)
ClientSendCall ==
    /\ proc.client.pc = "send"
    /\ InWindow
    /\ \E msg \in Msgs :
           Step("client", [Local("send_load_resp") EXCEPT !.len = msg.len, !.data = msg.data])
    /\ UNCHANGED <<req, req_data, resp, resp_data>>

ClientSendLoadResp ==
    /\ proc.client.pc = "send_load_resp"
    /\ Step("client", [proc.client EXCEPT !.pc = "send_load_req", !.resp = resp])
    /\ UNCHANGED <<req, req_data, resp, resp_data>>

\* the load of the request CSR, the NOTREADY test and the test of len
ClientSendLoadReq ==
    /\ proc.client.pc = "send_load_req"
    /\ Step("client", [proc.client EXCEPT
                          !.req = req,
                          !.i = 0,
                          !.pc = IF req.notify # proc.client.resp.notify THEN "send"
                                 ELSE IF proc.client.len # 0 THEN "send_copy"
                                 ELSE "send_store"])
    /\ UNCHANGED <<req, req_data, resp, resp_data>>

\* one byte of memcpy(req_data, data, len)
ClientSendCopy ==
    /\ proc.client.pc = "send_copy"
    /\ req_data' = [req_data EXCEPT ![proc.client.i + 1] = proc.client.data[proc.client.i + 1]]
    /\ Step("client", [proc.client EXCEPT
                          !.i = @ + 1,
                          !.pc = IF proc.client.i + 1 = proc.client.len
                                 THEN "send_store" ELSE "send_copy"])
    /\ UNCHANGED <<req, resp, resp_data>>

ClientSendStore ==
    /\ proc.client.pc = "send_store"
    /\ req' = Csr(U16(proc.client.req.notify + 1), proc.client.len)
    /\ Step("client", [proc.client EXCEPT !.pc = "recv_load_req"])
    /\ UNCHANGED <<req_data, resp, resp_data>>

\* the client enters wh_TransportMem_RecvResponse and loads the request CSR
ClientRecvLoadReq ==
    /\ proc.client.pc = "recv_load_req"
    /\ Step("client", [proc.client EXCEPT !.pc = "recv_load_resp", !.req = req])
    /\ UNCHANGED <<req, req_data, resp, resp_data>>

\* the load of the response CSR, the NOTREADY test and the test of resp.len
ClientRecvLoadResp ==
    /\ proc.client.pc = "recv_load_resp"
    /\ Step("client", [proc.client EXCEPT
                          !.resp = resp,
                          !.i = 0,
                          !.out_len = IF resp.notify = proc.client.req.notify /\ resp.len = 0
                                      THEN 0 ELSE @,
                          !.pc = IF resp.notify # proc.client.req.notify THEN "recv_load_req"
                                 ELSE IF resp.len # 0 THEN "recv_copy"
                                 ELSE "send"])
    /\ UNCHANGED <<req, req_data, resp, resp_data>>

\* one byte of memcpy(data, resp_data, resp.len); after the last, *out_len
ClientRecvCopy ==
    /\ proc.client.pc = "recv_copy"
    /\ LET l == proc.client
           done == l.i + 1 = l.resp.len
       IN  Step("client", [l EXCEPT
                              !.out[l.i + 1] = resp_data[l.i + 1],
                              !.i = @ + 1,
                              !.out_len = IF done THEN l.resp.len ELSE @,
                              !.pc = IF done THEN "send" ELSE "recv_copy"])
    /\ UNCHANGED <<req, req_data, resp, resp_data>>

\* the server enters wh_TransportMem_RecvRequest and loads the request CSR
ServerRecvLoadReq ==
    /\ proc.server.pc = "recv_load_req"
    /\ Step("server", [proc.server EXCEPT !.pc = "recv_load_resp", !.req = req,
                                          !.out = Unwritten, !.out_len = PayloadSize + 1])
    /\ UNCHANGED <<req, req_data, resp, resp_data>>

\* the load of the response CSR, the NOTREADY test and the test of req.len
ServerRecvLoadResp ==
    /\ proc.server.pc = "recv_load_resp"
    /\ LET l == proc.server
           pending == RequestPending(l.req, resp)
       IN  Step("server", [l EXCEPT
                              !.resp = resp,
                              !.i = 0,
                              !.out_len = IF pending /\ l.req.len = 0 THEN 0 ELSE @,
                              !.pc = IF ~pending THEN "recv_load_req"
                                     ELSE IF l.req.len # 0 THEN "recv_copy"
                                     ELSE "send"])
    /\ UNCHANGED <<req, req_data, resp, resp_data>>

\* one byte of memcpy(data, req_data, req.len); after the last, *out_len
ServerRecvCopy ==
    /\ proc.server.pc = "recv_copy"
    /\ LET l == proc.server
           done == l.i + 1 = l.req.len
       IN  Step("server", [l EXCEPT
                              !.out[l.i + 1] = req_data[l.i + 1],
                              !.i = @ + 1,
                              !.out_len = IF done THEN l.req.len ELSE @,
                              !.pc = IF done THEN "send" ELSE "recv_copy"])
    /\ UNCHANGED <<req, req_data, resp, resp_data>>

\* the server enters wh_TransportMem_SendResponse(len, data)
ServerSendCall ==
    /\ proc.server.pc = "send"
    /\ \E msg \in Msgs :
           Step("server", [proc.server EXCEPT !.pc = "send_load_req",
                                              !.len = msg.len, !.data = msg.data])
    /\ UNCHANGED <<req, req_data, resp, resp_data>>

ServerSendLoadReq ==
    /\ proc.server.pc = "send_load_req"
    /\ Step("server", [proc.server EXCEPT !.pc = "send_load_resp", !.req = req])
    /\ UNCHANGED <<req, req_data, resp, resp_data>>

\* the load of the response CSR and the test of len
ServerSendLoadResp ==
    /\ proc.server.pc = "send_load_resp"
    /\ Step("server", [proc.server EXCEPT
                          !.resp = resp,
                          !.i = 0,
                          !.pc = IF proc.server.len # 0 THEN "send_copy" ELSE "send_store"])
    /\ UNCHANGED <<req, req_data, resp, resp_data>>

\* one byte of memcpy(resp_data, data, len)
ServerSendCopy ==
    /\ proc.server.pc = "send_copy"
    /\ resp_data' = [resp_data EXCEPT ![proc.server.i + 1] = proc.server.data[proc.server.i + 1]]
    /\ Step("server", [proc.server EXCEPT
                          !.i = @ + 1,
                          !.pc = IF proc.server.i + 1 = proc.server.len
                                 THEN "send_store" ELSE "send_copy"])
    /\ UNCHANGED <<req, req_data, resp>>

ServerSendStore ==
    /\ proc.server.pc = "send_store"
    /\ resp' = Csr(proc.server.req.notify, proc.server.len)
    /\ Step("server", [proc.server EXCEPT !.pc = "recv_load_req"])
    /\ UNCHANGED <<req, req_data, resp_data>>

InitInterleaved ==
    /\ SheIdle
    /\ \E n \in {0, 65535} : req = Csr(n, 0) /\ resp = Csr(n, 0)
    /\ req_data = ZeroPayload
    /\ resp_data = ZeroPayload
    /\ initialized = [client |-> TRUE, server |-> TRUE]
    /\ tcall = TCall("server", "Init", WH_ERROR_OK)
    /\ proc = [client |-> Local("send"), server |-> Local("recv_load_req")]

NextInterleaved ==
    \/ ClientSendCall \/ ClientSendLoadResp \/ ClientSendLoadReq \/ ClientSendCopy
    \/ ClientSendStore \/ ClientRecvLoadReq \/ ClientRecvLoadResp \/ ClientRecvCopy
    \/ ServerRecvLoadReq \/ ServerRecvLoadResp \/ ServerRecvCopy \/ ServerSendCall
    \/ ServerSendLoadReq \/ ServerSendLoadResp \/ ServerSendCopy \/ ServerSendStore
SpecInterleaved == InitInterleaved /\ [][NextInterleaved]_vars

\* a process is between the first byte it writes and the store that publishes them
ClientWritesRequest == proc.client.pc \in {"send_copy", "send_store"}
ServerWritesResponse == proc.server.pc \in {"send_copy", "send_store"}

\* what a Recv returned is what the other side passed to its Send
Matches(recv, send) ==
    /\ recv.out_len = send.len
    /\ \A i \in 1..send.len : recv.out[i] = send.data[i]

\* the server holds a request it received and has not yet answered
ServerHasRequest == proc.server.pc \in {"send", "send_load_req", "send_load_resp",
                                        "send_copy", "send_store"}
\* the client holds the response to its last request
ClientHasResponse == proc.client.pc = "send" /\ proc.client.out_len # PayloadSize + 1

\* C29: with every CSR load, CSR store and payload copy a step of its own and
\* the two processes interleaved in any way, the server never copies a request
\* payload while the client is writing it, the client never copies a response
\* payload while the server is writing it, and every Recv returns the length
\* and bytes the matching Send was given.
C29_Interleaved ==
    /\ ~(proc.server.pc = "recv_copy" /\ ClientWritesRequest)
    /\ ~(proc.client.pc = "recv_copy" /\ ServerWritesResponse)
    /\ ServerHasRequest => Matches(proc.server, proc.client)
    /\ ClientHasResponse => Matches(proc.client, proc.server)

\* the client has the PayloadSize bytes of the response to its second request
C29_Witness ==
    /\ ClientHasResponse
    /\ proc.client.out_len = PayloadSize
    /\ proc.client.len = PayloadSize
    /\ proc.client.out # proc.client.data
    /\ req.notify = MaxNotify
    /\ proc.server.pc = "recv_load_resp"

----------------------------------------------------------------------------
(* Claims about the sizes of the secure boot *)

\* the bytes fed to the boot CMAC, <<chunks of 2^32-1 bytes, other bytes>>,
\* are at most, or exactly, the 32-bit size b
TrueSumAtMost(fed, b) ==
    \/ fed[1] = 0 /\ Le32(U32(fed[2]), b)
    \/ fed = <<1, 0>> /\ b = U32Max
TrueSumIs(fed, b) ==
    \/ fed[1] = 0 /\ U32(fed[2]) = b
    \/ fed = <<1, 0>> /\ b = U32Max

\* the 32-bit addition a + b wraps around
Wraps32(a, b) == a[1] + b[1] + ((a[2] + b[2]) \div 65536) >= 65536

\* an UPDATE whose addition wraps is answered SEQUENCE_ERROR
WrapRejected(r, o) ==
    (hsmSheSbState = WOLFHSM_SHE_SB_UPDATE /\ o.ran
        /\ Wraps32(hsmSheBlSizeReceived, r.p.sz))
    => o.rc = WH_SHE_ERC_SEQUENCE_ERROR

\* C27: within one boot attempt the true sum of the sizes of the accepted
\* UPDATE chunks stays at most bl_size, sb_state is FINISH only when that sum
\* is bl_size, and an UPDATE whose size makes bl_size_received + sz wrap
\* around in 32 bits is rejected with SEQUENCE_ERROR.
C27_TrueSum ==
    /\ (hsmSheSbState \in {WOLFHSM_SHE_SB_UPDATE, WOLFHSM_SHE_SB_FINISH})
           => TrueSumAtMost(sheCmac.fed, hsmSheBlSize)
    /\ (hsmSheSbState = WOLFHSM_SHE_SB_FINISH) => TrueSumIs(sheCmac.fed, hsmSheBlSize)
    /\ \A r \in SecureBootUpdateReqs(BootInputs) : WrapRejected(r, Outcome(r))

\* C28: in every state between two calls of the dispatcher
\* bl_size_received is at most bl_size.
C28_ReceivedAtMostSize == Le32(hsmSheBlSizeReceived, hsmSheBlSize)

\* an UPDATE that took the size received beyond bl_size was refused, after an
\* earlier chunk of the same boot attempt had been accepted
C28_Witness ==
    /\ ~call.null /\ call.ran
    /\ call.action = WH_SHE_SECURE_BOOT_UPDATE
    /\ call.rc = WH_SHE_ERC_SEQUENCE_ERROR
    /\ sheCmac.live /\ sheCmac.fed[2] > 0
    /\ hsmSheBlSizeReceived = U32Zero

----------------------------------------------------------------------------
(* The two processes under weak fairness: a process that can take a step    *)
(* eventually takes one.  Each process is a loop that calls the transport   *)
(* again whenever a call returned, so it always has a next statement.       *)

ClientStep ==
    \/ ClientSendCall \/ ClientSendLoadResp \/ ClientSendLoadReq \/ ClientSendCopy
    \/ ClientSendStore \/ ClientRecvLoadReq \/ ClientRecvLoadResp \/ ClientRecvCopy
ServerStep ==
    \/ ServerRecvLoadReq \/ ServerRecvLoadResp \/ ServerRecvCopy \/ ServerSendCall
    \/ ServerSendLoadReq \/ ServerSendLoadResp \/ ServerSendCopy \/ ServerSendStore

SpecFair ==
    /\ InitInterleaved
    /\ [][NextInterleaved]_vars
    /\ WF_vars(ClientStep)
    /\ WF_vars(ServerStep)

\* the client has published a request and is polling RecvResponse
ClientPolls == proc.client.pc \in {"recv_load_req", "recv_load_resp", "recv_copy"}

\* the SendRequest the client is in is about to pass its NOTREADY test
SendNotRefused ==
    (proc.client.pc = "send_load_req") => (req.notify = proc.client.resp.notify)

\* C31: once the client has published a request, with the server polling
\* RecvRequest and answering and the client polling RecvResponse, under weak
\* fairness of both processes the client's RecvResponse eventually succeeds,
\* and no SendRequest of the client is refused with NotReady.
C31_NoDeadlock == (ClientPolls ~> ClientHasResponse) /\ []SendNotRefused

\* the second SendRequest of the client passed its NOTREADY test after a
\* response of PayloadSize bytes had been delivered
C31_Witness ==
    /\ proc.client.pc = "send_store"
    /\ proc.client.req = Csr(0, PayloadSize)
    /\ proc.client.resp = Csr(0, PayloadSize)
    /\ resp_data # ZeroPayload
    /\ proc.server.pc = "recv_load_req"


----------------------------------------------------------------------------
(* The frame of LOAD_KEY *)

\* SpecLoad: LOAD_KEY with every refusal.  The server UID is 1 or MaxUid; the
\* packets are drawn over UIDs, slots, authorising keys, counters, the
\* WRITE_PROTECT flag and the key M3 was made with; the read that follows
\* the NVM write or a later crypto call may fail.
LoadInputs ==
    [KeyInputs EXCEPT !.uids = {1, MaxUid},
                      !.keyFails = {"none", "readback", "crypto2"}]

InitLoad == InitWith(LoadInputs)
NextLoad == NextWith(LoadInputs)
SpecLoad == InitLoad /\ [][NextLoad]_vars

\* M3 of packet p is the CMAC of M1 | M2 under K2 of the stored key M1 names
M3Verifies(p) ==
    LET auth == hsmReadKey(Cur, hsmShePopAuthId(p.m1))
    IN  /\ auth.present
        /\ p.m3 = CmacM1M2(wh_AesMp16(auth.key, WOLFHSM_SHE_KEY_UPDATE_MAC_C),
                           p.m1, p.m2)

\* outcome o leaves every slot of the cache and of NVM as it is
SlotsUnchanged(o) == o.s.nvm = nvm /\ o.s.cache = cache

\* packet p fails the M3, the UID / wildcard or the counter check
FailsCheck(p) ==
    LET auth   == hsmReadKey(Cur, hsmShePopAuthId(p.m1))
        pt     == AesCbcDecryptM2(
                      wh_AesMp16(auth.key, WOLFHSM_SHE_KEY_UPDATE_ENC_C), p.m2)
        target == hsmReadKey(Cur, hsmShePopId(p.m1))
    IN  \/ ~M3Verifies(p)
        \/ ~UidAllowed(Cur, p.m1, target, p.junk)
        \/ CounterRejected(littleEndian, pt, target)

\* request r is answered with one of the refusals that write nothing
RefusedByCheck(r, o) ==
    \/ o.rc = WH_SHE_ERC_KEY_NOT_AVAILABLE
    \/ o.rc = WH_SHE_ERC_WRITE_PROTECTED
    \/ o.rc = WH_SHE_ERC_KEY_UPDATE_ERROR /\ FailsCheck(r.p)

\* C32: a LOAD_KEY that passes the gate changes a key slot only if M3 is the
\* CMAC of M1 | M2 under K2 of the existing authorising key, and one answered
\* KEY_NOT_AVAILABLE, WRITE_PROTECTED, or KEY_UPDATE_ERROR by the M3, UID /
\* wildcard or counter check leaves every slot and ram_key_plain unchanged.
C32_LoadKeyFrame ==
    \A r \in LoadKeyReqs(LoadInputs) :
        LET o == Outcome(r)
        IN  o.ran =>
                /\ ~SlotsUnchanged(o) => M3Verifies(r.p)
                /\ RefusedByCheck(r, o) =>
                       /\ SlotsUnchanged(o)
                       /\ o.s.ramKeyPlain = hsmSheRamKeyPlain

\* a LOAD_KEY was refused with KEY_UPDATE_ERROR while KEY_1 and the RAM key
\* hold keys loaded earlier, and a packet with a wrong M3 is refused now
C32_Witness ==
    /\ ~call.null /\ call.ran
    /\ call.action = WH_SHE_LOAD_KEY
    /\ call.rc = WH_SHE_ERC_KEY_UPDATE_ERROR
    /\ nvm[WOLFHSM_SHE_KEY_1_ID].present
    /\ cache[WOLFHSM_SHE_RAM_KEY_ID].present
    /\ hsmSheRamKeyPlain
    /\ \E r \in LoadKeyReqs(LoadInputs) :
           /\ ~M3Verifies(r.p)
           /\ Outcome(r).rc = WH_SHE_ERC_KEY_UPDATE_ERROR


----------------------------------------------------------------------------
(* The frame of the gate and of the secure-boot state *)

\* SpecGate: every action before, during and after a boot.  The store holds
\* SECRET_KEY and PRNG_SEED, with or without BOOT_MAC_KEY and BOOT_MAC, so a
\* boot can succeed or be skipped, keys can be loaded and the PRNG seeded; a
\* SECURE_BOOT_* that fails afterwards closes the gate again.
GateInputs ==
    [BootInputs EXCEPT !.stores = {"full", "noboot"},
                       !.uids = {MaxUid},
                       !.wrap = FALSE,
                       !.lkMacKeys = {Raw(0)}]

InitGate == InitWith(GateInputs)
NextGate == NextWith(GateInputs)
SpecGate == InitGate /\ [][NextGate]_vars

\* outcome o leaves the four secure-boot statics as they are
BootStateUnchanged(o) ==
    /\ o.s.sb = hsmSheSbState
    /\ o.s.blSize = hsmSheBlSize
    /\ o.s.blRecv = hsmSheBlSizeReceived
    /\ o.s.cmacKeyFound = hsmSheCmacKeyFound

\* outcome o leaves the UID, the flags, the PRNG and the keystore as they are
RestUnchanged(o) ==
    /\ o.s.uid = sheUid
    /\ o.s.uidSet = hsmSheUidSet
    /\ o.s.ramKeyPlain = hsmSheRamKeyPlain
    /\ o.s.rndInited = hsmSheRndInited
    /\ o.s.prngState = hsmShePrngState
    /\ o.s.prngKey = WOLFHSM_SHE_PRNG_KEY
    /\ o.s.nvm = nvm
    /\ o.s.cache = cache

\* C33: a request the gate answers with SEQUENCE_ERROR changes nothing of the
\* server state, and no action other than the three SECURE_BOOT_* ever
\* changes sb_state, bl_size, bl_size_received or cmac_key_found.
C33_GateFrame ==
    \A r \in Requests(GateInputs) :
        LET o == Outcome(r)
        IN  /\ GateRejects(Cur, r.action) =>
                /\ o.rc = WH_SHE_ERC_SEQUENCE_ERROR
                /\ BootStateUnchanged(o)
                /\ RestUnchanged(o)
            /\ r.action \notin SecureBootActions => BootStateUnchanged(o)

\* the gate refused a request in the middle of a boot, with bytes received,
\* and a request other than SECURE_BOOT_* that fails in its handler is next
C33_Witness ==
    /\ ~call.null /\ ~call.ran
    /\ call.rc = WH_SHE_ERC_SEQUENCE_ERROR
    /\ call.action \notin SecureBootActions
    /\ hsmSheUidSet
    /\ hsmSheSbState = WOLFHSM_SHE_SB_UPDATE
    /\ hsmSheBlSizeReceived # U32Zero
    /\ hsmSheCmacKeyFound


----------------------------------------------------------------------------
(* The secure-boot statics between two calls *)

\* C34: between two dispatcher calls, sb_state INIT implies bl_size = 0,
\* bl_size_received = 0 and cmac_key_found false; UPDATE implies
\* cmac_key_found; FINISH implies cmac_key_found and bl_size_received =
\* bl_size; and cmac_key_found implies sb_state UPDATE, FINISH or SUCCESS.
C34_BootStateInvariant ==
    /\ hsmSheSbState = WOLFHSM_SHE_SB_INIT =>
           /\ hsmSheBlSize = U32Zero
           /\ hsmSheBlSizeReceived = U32Zero
           /\ ~hsmSheCmacKeyFound
    /\ hsmSheSbState = WOLFHSM_SHE_SB_UPDATE => hsmSheCmacKeyFound
    /\ hsmSheSbState = WOLFHSM_SHE_SB_FINISH =>
           /\ hsmSheCmacKeyFound
           /\ hsmSheBlSizeReceived = hsmSheBlSize
    /\ hsmSheCmacKeyFound =>
           hsmSheSbState \in {WOLFHSM_SHE_SB_UPDATE, WOLFHSM_SHE_SB_FINISH,
                              WOLFHSM_SHE_SB_SUCCESS}

\* the last chunk of an image was accepted: the state is FINISH with the
\* size received equal to the size announced, not zero
C34_Witness ==
    /\ ~call.null /\ call.ran
    /\ call.action = WH_SHE_SECURE_BOOT_UPDATE
    /\ call.rc = WH_SHE_ERC_NO_ERROR
    /\ hsmSheSbState = WOLFHSM_SHE_SB_FINISH
    /\ hsmSheCmacKeyFound
    /\ hsmSheBlSize # U32Zero
    /\ hsmSheBlSizeReceived = hsmSheBlSize


----------------------------------------------------------------------------
(* Lengths above the payload region.  In SpecOverrun req_data and resp_data *)
(* are the bytes from the start of each payload on: the PayloadSize bytes   *)
(* of the region (req_size - 8, resp_size - 8) followed by the MaxOver      *)
(* bytes that come after the configured buffer.  memcpy copies its n bytes  *)
(* from the start, whatever the size of the region.                         *)

MaxOver == 1

\* every length up to MaxOver bytes more than the payload region holds
WideLens == 0..(PayloadSize + MaxOver)
\* the offsets past the payload region
Beyond == (PayloadSize + 1)..(PayloadSize + MaxOver)
\* the region and the bytes after it, all zero
WideZero == [i \in 1..(PayloadSize + MaxOver) |-> 0]
\* a receive buffer as large as the largest length
WideOutBufs == {Ptr([i \in 1..(PayloadSize + MaxOver) |-> 2]), NULL}

\* a store past the end of the buffer is undefined: either it lands and the
\* bytes that follow the region are overwritten (hit), or it does not land
\* and they keep their values
PastTheEnd(o, hit) ==
    IF hit THEN o
    ELSE [o EXCEPT
            !.m.req_data = [i \in DOMAIN @ |-> IF i \in Beyond THEN req_data[i] ELSE @[i]],
            !.m.resp_data = [i \in DOMAIN @ |-> IF i \in Beyond THEN resp_data[i] ELSE @[i]]]

SendRequestAnyLen ==
    \E len \in WideLens : \E data \in DataOf(len) : \E hit \in BOOLEAN :
        /\ InWindow
        /\ TReturn("client", "SendRequest",
                   PastTheEnd(wh_TransportMem_SendRequest(
                                  Shm, initialized.client, len, data), hit))

RecvRequestAnyLen ==
    \E out_len \in OutLens : \E data \in WideOutBufs :
        /\ TReturn("server", "RecvRequest",
                   wh_TransportMem_RecvRequest(Shm, initialized.server, out_len, data))

SendResponseAnyLen ==
    \E len \in WideLens : \E data \in DataOf(len) : \E hit \in BOOLEAN :
        /\ TReturn("server", "SendResponse",
                   PastTheEnd(wh_TransportMem_SendResponse(
                                  Shm, initialized.server, len, data), hit))

RecvResponseAnyLen ==
    \E out_len \in OutLens : \E data \in WideOutBufs :
        /\ TReturn("client", "RecvResponse",
                   wh_TransportMem_RecvResponse(Shm, initialized.client, out_len, data))

\* both contexts initialised over zeroed buffers, the bytes after them zero
InitOverrun ==
    /\ SheIdle
    /\ \E n \in {0, 65535} : req = Csr(n, 0) /\ resp = Csr(n, 0)
    /\ req_data = WideZero
    /\ resp_data = WideZero
    /\ initialized = [client |-> TRUE, server |-> TRUE]
    /\ tcall = TCall("server", "Init", WH_ERROR_OK)
    /\ proc = Idle

NextOverrun ==
    SendRequestAnyLen \/ RecvRequestAnyLen \/ SendResponseAnyLen \/ RecvResponseAnyLen
SpecOverrun == InitOverrun /\ [][NextOverrun]_vars

\* a Send of len bytes is refused and leaves the shared memory as it is
SendRefused(o) == o.rc # WH_ERROR_OK /\ o.m = Shm

\* C35: no call writes or reads payload bytes outside the configured buffer:
\* the bytes after each payload region are never written, the length a Recv
\* copies is at most the size of the region, and a Send with a larger len is
\* refused without touching memory.
C35_WithinBuffer ==
    /\ \A i \in Beyond : req_data[i] = 0 /\ resp_data[i] = 0
    /\ req.len <= PayloadSize
    /\ resp.len <= PayloadSize
    /\ \A len \in WideLens : \A data \in DataOf(len) :
           len > PayloadSize =>
               /\ (req.notify = resp.notify =>
                       SendRefused(wh_TransportMem_SendRequest(
                                   Shm, initialized.client, len, data)))
               /\ SendRefused(wh_TransportMem_SendResponse(
                              Shm, initialized.server, len, data))

============================================================================
